---- MODULE Spec2Model ----
(***************************************************************************)
(* Model of services/rate_limiter.py: the rate-limit tracker, the          *)
(* exponential backoff policy, the asyncio request queue with its single   *)
(* consumer coroutine (process_queue) and the synchronous decorator        *)
(* (with_rate_limit_handling).                                             *)
(*                                                                         *)
(* Time is counted in milliseconds.  Python's None is the empty sequence   *)
(* and a present optional value v is <<v>>.  Values returned and errors    *)
(* raised by a bound action are records [tag, op, at]: tag "ok" for a      *)
(* value, otherwise the name of the error (its text is ErrorText(tag));    *)
(* op is the operation (0 for the decorator) and at the attempt on which   *)
(* the action produced it.                                                 *)
(*                                                                         *)
(* The consumer is a coroutine on a single-threaded event loop: other      *)
(* coroutines (submitters, callers timing out) run only while it is        *)
(* suspended in queue.get() or asyncio.sleep().  The model cuts it into    *)
(* smaller steps; a future is only read where an attempt resolves it, so   *)
(* every extra interleaving is equivalent to one of the event loop.        *)
(***************************************************************************)
EXTENDS Integers, Sequences, FiniteSets, TLC

\* ------------------------------------------------------------------ bounds
\* Operations submitted to the queue in one run.
MaxOps == 3
\* Largest _max_retries / max_retries a caller passes explicitly
\* (0 .. MaxRetriesBound); a caller that passes none gets the default.
MaxRetriesBound == 2
\* Calls made through the decorator in one run.
MaxCalls == 2
\* Calls of tracker methods made by the threads in one run.
MaxTrackerCalls == 2
\* Times the clock is advanced between tracker calls in one run.
MaxTicks == 1
\* Seconds from the response to the reset instant its headers announce.
ResetAfterSec == 30
\* Resolution of the jitter draw.
JitterDen == 8
\* Largest attempt number get_delay is called with on its own.
MaxAttemptArg == 10
\* Calls of get_cached / set_cached made in one run.
MaxCacheCalls == 3
\* Times the clock is advanced between cache calls in one run.
MaxCacheTicks == 2
\* Calls of analyze_repository made in one run.
MaxAnalyzeCalls == 2
\* Calls of list_repo_files made in one run.
MaxListCalls == 2

\* --------------------------------------------------------- program constants
\* ExponentialBackoffRetry.__init__: initial_delay = 1.0 (seconds)
InitialDelaySec == 1
\* ExponentialBackoffRetry.__init__: max_delay = 300.0 (seconds)
MaxDelaySec == 300
\* get_delay: jitter_amount = delay * 0.2 * random.random()  (0.2 = 2/10)
JitterTenths == 2
\* get_wait_time: fallback when the reset time is unknown (seconds)
FallbackWaitSec == 3600
AuthLimit == 5000
\* github_service.py: _cache_ttl = 300 (seconds)
CacheTtlSec == 300
\* process_queue: kwargs.pop('_max_retries', 3)
DefaultMaxRetries == 3
\* with_rate_limit_handling(rate_limiter, endpoint='core', max_retries=3)
WrapperDefaultMaxRetries == 3

Ms(sec) == sec * 1000

\* random.random() is modelled as u / JitterDen for a draw u in 0..JitterDen-1;
\* the sleeps of the queue and of the decorator draw from SleepJitterDraws.
JitterDraws == 0..(JitterDen - 1)
SleepJitterDraws == {JitterDen - 1}

Endpoints == {"core", "search", "graphql"}
\* The endpoints the submitted operations and the decorated functions name.
UsedEndpoints == {"core", "graphql"}

Min(a, b) == IF a <= b THEN a ELSE b
Max(a, b) == IF a >= b THEN a ELSE b
RECURSIVE Pow2(_)
Pow2(n) == IF n <= 0 THEN 1 ELSE 2 * Pow2(n - 1)

None == <<>>
Some(v) == <<v>>

\* ------------------------------------------------------------ error texts
\* str(e) of the errors a bound action raises, as character sequences.
ErrorText(tag) ==
    CASE tag = "E403" -> <<"4", "0", "3">>
      [] tag = "ERateLimit" -> <<"R", "a", "t", "e", " ", "L", "i", "m", "i", "t">>
      [] tag = "EAbuse" -> <<"a", "b", "u", "s", "e">>
      [] tag = "E429" -> <<"4", "2", "9">>
      [] tag = "E404" -> <<"4", "0", "4">>
      [] tag = "InvalidStateError" -> <<"i", "n", "v", "a", "l", "i", "d">>
      [] OTHER -> <<>>

\* str.lower() on one character.
LowerChar(c) ==
    CASE c = "R" -> "r"
      [] c = "L" -> "l"
      [] c = "A" -> "a"
      [] OTHER -> c

Lower(s) == [i \in 1..Len(s) |-> LowerChar(s[i])]

\* Python's `needle in text` on strings.
Contains(text, needle) ==
    \E i \in 1..(Len(text) - Len(needle) + 1) :
        SubSeq(text, i, i + Len(needle) - 1) = needle

IsRateLimitText(text) ==
    LET error_str == Lower(text)
    IN  \/ Contains(error_str, <<"r", "a", "t", "e", " ", "l", "i", "m", "i", "t">>)
        \/ Contains(error_str, <<"4", "0", "3">>)
        \/ Contains(error_str, <<"a", "b", "u", "s", "e">>)

\* wrapper: is_rate_limit for a raised error e.
IsRateLimit(e) == IsRateLimitText(ErrorText(e.tag))

\* Errors the bound actions of queued operations raise, and those of the
\* decorated functions.
QueueErrors == {"E403", "E404"}
WrapperErrors == {"E403", "ERateLimit", "EAbuse", "E429", "E404"}

\* ------------------------------------------------------------------ state
VARIABLES
    limits,         \* RateLimitTracker.limits
    authenticated,  \* RateLimitTracker.authenticated
    now,            \* time.time(), in ms
    queue,          \* RequestQueue.queue: items (id, endpoint, maxRetries)
    nextId,         \* number of operations submitted so far
    futures,        \* the asyncio.Future of each submitted operation
    processing,     \* RequestQueue.processing
    pc,             \* where the consumer coroutine stands
    cur,            \* the item the consumer has dequeued
    attempt,        \* process_queue: attempt
    lastError,      \* process_queue: last_error
    delay,          \* duration of the sleep the consumer is suspended in
    trace,          \* executions and sleeps of the operation in cur
    startOrder,     \* operations in the order of their first execution
    resolveOrder,   \* operations in the order process_queue resolved them
    handled,        \* operations process_queue has called task_done for
    failedOps,      \* operations one of whose executions raised
    wpc,            \* where the decorator's wrapper stands
    wCalls,         \* number of wrapper calls started
    wMax,           \* with_rate_limit_handling: max_retries
    wEndpoint,      \* with_rate_limit_handling: endpoint
    wAttempt,       \* wrapper: attempt
    wLastError,     \* wrapper: last_error
    wDelay,         \* duration of the sleep the wrapper is blocked in
    wResult,        \* how the wrapper call ended
    wTrace,         \* executions and sleeps of the wrapper call
    lock,           \* RateLimitTracker.lock: the thread that holds it
    tpc,            \* where each thread stands in its tracker call
    call,           \* the tracker call each thread is making
    ret,            \* what the last tracker call of each thread returned
    seq,            \* number of tracker method bodies run so far
    stamp,          \* when each record was last stored
    written,        \* the records __init__ and update_from_response built
    ticks,          \* number of clock advances so far
    cache,          \* github_service._cache: key -> (value, timestamp)
    cpc,            \* where each cache thread stands in its call
    ccall,          \* the cache call each thread is making
    clocal,         \* get_cached: the entry the thread has read
    cret,           \* what the last cache call of each thread returned
    cseq,           \* number of cache calls completed so far
    gen,            \* number of values produced so far
    lastSet,        \* the last write of each key
    cticks,         \* number of clock advances of the cache runs
    apc,            \* where the analyze_repository call stands
    aForce,         \* analyze_repository: force_refresh of each call so far
    aCalls,         \* number of analyze_repository calls started
    aRet,           \* how the last analyze_repository call ended
    lRet,           \* how the last list_repo_files call ended
    lCalls,         \* number of list_repo_files calls made
    fetches,        \* number of requests that went to GitHub
    bargs,          \* get_delay on its own: attempt, jitter flag and draws
    bdelays         \* get_delay on its own: the delays returned so far

trackerVars == <<limits, authenticated>>
queueVars == <<queue, nextId, futures, processing, pc, cur, attempt, lastError,
               delay, trace, startOrder, resolveOrder, handled, failedOps>>
wrapperVars == <<wpc, wCalls, wMax, wEndpoint, wAttempt, wLastError, wDelay,
                 wResult, wTrace>>
apiVars == <<lock, tpc, call, ret, seq, stamp, written, ticks>>
backoffVars == <<bargs, bdelays>>
listVars == <<lRet, lCalls, fetches>>
cacheVars == <<cache, cpc, ccall, clocal, cret, cseq, gen, lastSet, cticks,
               apc, aForce, aCalls, aRet, lRet, lCalls, fetches>>
vars == <<limits, authenticated, now, queue, nextId, futures, processing, pc,
          cur, attempt, lastError, delay, trace, startOrder, resolveOrder,
          handled, failedOps, wpc, wCalls, wMax, wEndpoint, wAttempt, wLastError, wDelay,
          wResult, wTrace, lock, tpc, call, ret, seq, stamp, written, ticks,
          cache, cpc, ccall, clocal, cret, cseq, gen, lastSet, cticks, apc,
          aForce, aCalls, aRet, lRet, lCalls, fetches, bargs, bdelays>>

\* Mutant of InitLimits: 'graphql' starts with a quota of its own.
InitLimitsGraphqlOpen ==
    [e \in Endpoints |->
        CASE e = "core" -> [limit |-> 60, remaining |-> 60, reset |-> None, endpoint |-> "core"]
          [] e = "search" -> [limit |-> 10, remaining |-> 10, reset |-> None, endpoint |-> "search"]
          [] OTHER -> [limit |-> 10, remaining |-> 10, reset |-> None, endpoint |-> "graphql"]]

\* ---------------------------------------------------------------- tracker
\* RateLimitTracker.__init__
InitLimits ==
    [e \in Endpoints |->
        CASE e = "core" -> [limit |-> 60, remaining |-> 60, reset |-> None, endpoint |-> "core"]
          [] e = "search" -> [limit |-> 10, remaining |-> 10, reset |-> None, endpoint |-> "search"]
          [] OTHER -> [limit |-> 0, remaining |-> 0, reset |-> None, endpoint |-> "graphql"]]

\* Python truth value of status['reset'] (None and 0 are false).
Truthy(reset) == reset # None /\ reset[1] # 0

\* Mutant of GetWaitTime: the difference to the reset instant is returned
\* without max(0, ...).
GetWaitTimeNoClamp(lim, endpoint, t) ==
    LET status == IF endpoint \in DOMAIN lim THEN lim[endpoint] ELSE lim["core"]
    IN  IF status.remaining > 0 THEN 0
        ELSE IF Truthy(status.reset) THEN Ms(status.reset[1]) - t
        ELSE Ms(FallbackWaitSec)

\* RateLimitTracker.get_wait_time, at clock t (ms); reset is in epoch seconds.
GetWaitTime(lim, endpoint, t) ==
    LET status == IF endpoint \in DOMAIN lim THEN lim[endpoint] ELSE lim["core"]
    IN  IF status.remaining > 0 THEN 0
        ELSE IF Truthy(status.reset) THEN Max(0, Ms(status.reset[1]) - t)
        ELSE Ms(FallbackWaitSec)

\* Mutant of IsRateLimited: a class with nothing remaining is limited only
\* once remaining has gone below zero.
IsRateLimitedStrict(lim, endpoint) ==
    LET status == IF endpoint \in DOMAIN lim THEN lim[endpoint] ELSE lim["core"]
    IN  status.remaining < 0

\* RateLimitTracker.is_rate_limited
IsRateLimited(lim, endpoint) ==
    LET status == IF endpoint \in DOMAIN lim THEN lim[endpoint] ELSE lim["core"]
    IN  status.remaining <= 0

\* ------------------------------------------------------- tracker, threads
\* The threads that call the tracker's methods: one reports responses, the
\* other reads.
Threads == {"updater", "reader"}

\* A response header: absent (None), or its text, which int() turns into n
\* or rejects (bad).
IntText(n) == Some([bad |-> FALSE, n |-> n])
BadText == Some([bad |-> TRUE, n |-> 0])
Headers(l, r, s) == [limit |-> l, remaining |-> r, reset |-> s]
NoHeaders == Headers(None, None, None)

\* The headers of an authenticated response at clock t (ms).
AuthHeaders(t) ==
    Headers(IntText(AuthLimit), IntText(AuthLimit - 1),
            IntText(t \div 1000 + ResetAfterSec))

\* The header dicts passed to update_from_response at clock t (ms).
HeaderChoices(t) ==
    { Headers(IntText(60), IntText(0), IntText(t \div 1000 + ResetAfterSec)),
      AuthHeaders(t),
      Headers(None, IntText(-1), None),
      Headers(BadText, None, None),
      NoHeaders }

\* A call of a tracker method; since is the number of method bodies that
\* had run when the call was made.
TrackerCall(op, endpoint, headers) ==
    [op |-> op, endpoint |-> endpoint, headers |-> headers, since |-> 0]
NoCall == TrackerCall("none", "core", NoHeaders)

\* The calls thread th makes at clock t; "other" is a class the tracker
\* has no record for.
TrackerCalls(th, t) ==
    IF th = "updater"
    THEN {TrackerCall("update_from_response", "core", h) : h \in HeaderChoices(t)}
         \cup {TrackerCall("update_from_response", e, AuthHeaders(t)) :
                 e \in {"search", "other"}}
    ELSE {TrackerCall("get_status", e, NoHeaders) : e \in {"core", "other"}}
         \cup {TrackerCall("get_all_statuses", "core", NoHeaders)}
         \cup {TrackerCall("get_wait_time", e, NoHeaders) : e \in {"core", "graphql"}}
         \cup {TrackerCall("is_rate_limited", "core", NoHeaders)}

\* int(headers.get(key, default))
HeaderInt(h, default) == IF h = None THEN default ELSE h[1].n

\* A parse that fails for a text that is no integer only: an untracked
\* endpoint is accepted.
ParseFailsTextOnly(lim, endpoint, headers) ==
    \E h \in {headers.limit, headers.remaining, headers.reset} :
        h # None /\ h[1].bad

\* Lines 46-48 raise: KeyError in the default of an untracked endpoint,
\* ValueError for a text that is no integer.
ParseFails(lim, endpoint, headers) ==
    \/ endpoint \notin DOMAIN lim
    \/ \E h \in {headers.limit, headers.remaining, headers.reset} :
        h # None /\ h[1].bad

\* Mutant of ParsedRecord: a missing reset header keeps the reset instant
\* recorded before, as a missing limit or remaining header does.
ParsedRecordKeepReset(lim, endpoint, headers) ==
    [limit |-> HeaderInt(headers.limit, lim[endpoint].limit),
     remaining |-> HeaderInt(headers.remaining, lim[endpoint].remaining),
     reset |-> IF headers.reset = None THEN lim[endpoint].reset
               ELSE Some(headers.reset[1].n),
     endpoint |-> endpoint]

\* The dict update_from_response builds from the headers.
ParsedRecord(lim, endpoint, headers) ==
    [limit |-> HeaderInt(headers.limit, lim[endpoint].limit),
     remaining |-> HeaderInt(headers.remaining, lim[endpoint].remaining),
     reset |-> Some(HeaderInt(headers.reset, 0)),
     endpoint |-> endpoint]

\* Mutant of StoreRecord: the stored dict is written in place and its reset
\* is left as it was.
StoreRecordInPlace(lim, endpoint, rec) ==
    [lim EXCEPT ![endpoint].limit = rec.limit,
                ![endpoint].remaining = rec.remaining]

\* self.limits[endpoint] = {...}
StoreRecord(lim, endpoint, rec) == [lim EXCEPT ![endpoint] = rec]

\* Mutant of NewAuthenticated: the flag follows the last update.
NewAuthenticatedLast(auth, endpoint, limit) ==
    endpoint = "core" /\ limit >= AuthLimit

\* if endpoint == 'core' and limit >= 5000: self.authenticated = True
NewAuthenticated(auth, endpoint, limit) ==
    IF endpoint = "core" /\ limit >= AuthLimit THEN TRUE ELSE auth

\* get_status: if endpoint not in self.limits: endpoint = 'core'
EffectiveEndpoint(lim, endpoint) ==
    IF endpoint \in DOMAIN lim THEN endpoint ELSE "core"

\* Mutant of StatusRef: the stored dicts themselves are returned.
StatusRefLive(es) == es

\* The stored dicts that the dicts returned for the classes es are the same
\* objects as: none, each is a .copy().
StatusRef(es) == {}

\* threading.RLock: free, or held by the acquiring thread itself.
CanAcquire(owner, t) == owner = None \/ owner = Some(t)

NoRecs == [e \in {} |-> 0]
NoRet == [op |-> "none", endpoint |-> "core", ok |-> FALSE, num |-> 0,
          recs |-> NoRecs, seen |-> NoRecs, alias |-> {}, touched |-> FALSE,
          at |-> 0, seq |-> 0]

\* A thread calls a tracker method and reaches `with self.lock`.
TCall(t) ==
    /\ tpc[t] = "idle"
    /\ seq + Cardinality({u \in Threads : tpc[u] # "idle"}) < MaxTrackerCalls
    /\ \E c \in TrackerCalls(t, now) :
        call' = [call EXCEPT ![t] = [c EXCEPT !.since = seq]]
    /\ tpc' = [tpc EXCEPT ![t] = "waiting"]
    /\ UNCHANGED <<trackerVars, now, lock, ret, seq, stamp, written, ticks,
                   queueVars, wrapperVars, cacheVars, backoffVars>>

\* with self.lock: the thread acquires the lock.
TAcquire(t) ==
    /\ tpc[t] = "waiting"
    /\ CanAcquire(lock, t)
    /\ lock' = Some(t)
    /\ tpc' = [tpc EXCEPT ![t] = "locked"]
    /\ UNCHANGED <<trackerVars, now, call, ret, seq, stamp, written, ticks,
                   queueVars, wrapperVars, cacheVars, backoffVars>>

\* The method of thread t returns r and leaves `with self.lock`.
Returns(t, r) ==
    /\ ret' = [ret EXCEPT ![t] = r]
    /\ seq' = seq + 1
    /\ lock' = None
    /\ tpc' = [tpc EXCEPT ![t] = "idle"]

\* What a reading method returns: the value by kind, the dicts it read.
ReadRet(c, ok, num, recs, seen, alias) ==
    [op |-> c.op, endpoint |-> c.endpoint, ok |-> ok, num |-> num,
     recs |-> recs, seen |-> seen, alias |-> alias, touched |-> FALSE,
     at |-> now, seq |-> seq + 1]

\* update_from_response, lines 45-55 and 64-66: parse the headers; on an
\* exception return False, else store the new dict.
UStore(t) ==
    /\ tpc[t] = "locked"
    /\ call[t].op = "update_from_response"
    /\ LET c == call[t] IN
        IF ParseFails(limits, c.endpoint, c.headers)
        THEN /\ Returns(t, ReadRet(c, FALSE, 0, NoRecs, NoRecs, {}))
             /\ UNCHANGED <<limits, stamp, written>>
        ELSE LET rec == ParsedRecord(limits, c.endpoint, c.headers) IN
             /\ limits' = StoreRecord(limits, c.endpoint, rec)
             /\ written' = written \cup {rec}
             /\ stamp' = [stamp EXCEPT ![c.endpoint] =
                              [seq |-> seq + 1, at |-> now]]
             /\ ret' = [u \in Threads |->
                          [ret[u] EXCEPT !.alias = @ \ {c.endpoint}]]
             /\ seq' = seq + 1
             /\ tpc' = [tpc EXCEPT ![t] = "stored"]
             /\ UNCHANGED lock
    /\ UNCHANGED <<authenticated, now, call, ticks, queueVars, wrapperVars, cacheVars, backoffVars>>

\* update_from_response, lines 58-63: the authenticated flag, return True.
UFlag(t) ==
    /\ tpc[t] = "stored"
    /\ LET c == call[t] IN
        /\ authenticated' =
              NewAuthenticated(authenticated, c.endpoint, limits[c.endpoint].limit)
        /\ ret' = [ret EXCEPT ![t] =
                      [ReadRet(c, TRUE, 0, NoRecs, NoRecs, {}) EXCEPT !.seq = seq]]
    /\ lock' = None
    /\ tpc' = [tpc EXCEPT ![t] = "idle"]
    /\ UNCHANGED <<limits, now, call, seq, stamp, written, ticks, queueVars,
                   wrapperVars, cacheVars, backoffVars>>

\* RateLimitTracker.get_status
GetStatus(t) ==
    /\ tpc[t] = "locked"
    /\ call[t].op = "get_status"
    /\ LET e == EffectiveEndpoint(limits, call[t].endpoint)
           snap == [x \in {e} |-> limits[x]]
       IN  Returns(t, ReadRet(call[t], FALSE, 0, snap, snap, StatusRef({e})))
    /\ UNCHANGED <<trackerVars, now, call, stamp, written, ticks, queueVars,
                   wrapperVars, cacheVars, backoffVars>>

\* RateLimitTracker.get_all_statuses
GetAllStatuses(t) ==
    /\ tpc[t] = "locked"
    /\ call[t].op = "get_all_statuses"
    /\ LET snap == [x \in DOMAIN limits |-> limits[x]]
       IN  Returns(t, ReadRet(call[t], FALSE, 0, snap, snap,
                              StatusRef(DOMAIN limits)))
    /\ UNCHANGED <<trackerVars, now, call, stamp, written, ticks, queueVars,
                   wrapperVars, cacheVars, backoffVars>>

\* Mutant of GetWaitTimeCall: asking for the wait time uses up one request
\* of the class.
GetWaitTimeCallConsuming(t) ==
    /\ tpc[t] = "locked"
    /\ call[t].op = "get_wait_time"
    /\ LET e == EffectiveEndpoint(limits, call[t].endpoint)
           snap == [x \in {e} |-> limits[x]]
       IN  /\ Returns(t, ReadRet(call[t], FALSE,
                                 GetWaitTime(limits, call[t].endpoint, now),
                                 NoRecs, snap, {}))
           /\ limits' = [limits EXCEPT ![e].remaining = @ - 1]
    /\ UNCHANGED <<authenticated, now, call, stamp, written, ticks, queueVars,
                   wrapperVars, cacheVars, backoffVars>>

\* A thread calls RateLimitTracker.get_wait_time.
GetWaitTimeCall(t) ==
    /\ tpc[t] = "locked"
    /\ call[t].op = "get_wait_time"
    /\ LET e == EffectiveEndpoint(limits, call[t].endpoint)
           snap == [x \in {e} |-> limits[x]]
       IN  Returns(t, ReadRet(call[t], FALSE,
                              GetWaitTime(limits, call[t].endpoint, now),
                              NoRecs, snap, {}))
    /\ UNCHANGED <<trackerVars, now, call, stamp, written, ticks, queueVars,
                   wrapperVars, cacheVars, backoffVars>>

\* A thread calls RateLimitTracker.is_rate_limited.
IsRateLimitedCall(t) ==
    /\ tpc[t] = "locked"
    /\ call[t].op = "is_rate_limited"
    /\ LET e == EffectiveEndpoint(limits, call[t].endpoint)
           snap == [x \in {e} |-> limits[x]]
       IN  Returns(t, ReadRet(call[t], IsRateLimited(limits, call[t].endpoint),
                              0, NoRecs, snap, {}))
    /\ UNCHANGED <<trackerVars, now, call, stamp, written, ticks, queueVars,
                   wrapperVars, cacheVars, backoffVars>>

\* The caller changes a dict that get_status or get_all_statuses returned to
\* it (once per returned value); a stored dict changes with it when the
\* returned dict is that same object.
CallerMutate(t) ==
    /\ tpc[t] = "idle"
    /\ ~ret[t].touched
    /\ \E e \in DOMAIN ret[t].recs :
        LET rec == [ret[t].recs[e] EXCEPT !.remaining = @ - 1] IN
        /\ ret' = [ret EXCEPT ![t].recs[e] = rec, ![t].touched = TRUE]
        /\ limits' = IF e \in ret[t].alias
                     THEN [limits EXCEPT ![e] = rec] ELSE limits
    /\ UNCHANGED <<authenticated, now, lock, tpc, call, seq, stamp, written,
                   ticks, queueVars, wrapperVars, cacheVars, backoffVars>>

\* time.time() advances: half a second, or past the announced reset.
TickSteps == {500, Ms(ResetAfterSec + 1)}
Tick ==
    /\ ticks < MaxTicks
    /\ ticks' = ticks + 1
    /\ \E dt \in TickSteps : now' = now + dt
    /\ UNCHANGED <<trackerVars, lock, tpc, call, ret, seq, stamp, written,
                   queueVars, wrapperVars, cacheVars, backoffVars>>

TrackerNext ==
    \/ \E t \in Threads : TCall(t)
    \/ \E t \in Threads : TAcquire(t)
    \/ \E t \in Threads : UStore(t)
    \/ \E t \in Threads : UFlag(t)
    \/ \E t \in Threads : GetStatus(t)
    \/ \E t \in Threads : GetAllStatuses(t)
    \/ \E t \in Threads : GetWaitTimeCall(t)
    \/ \E t \in Threads : IsRateLimitedCall(t)
    \/ \E t \in Threads : CallerMutate(t)
    \/ Tick

\* ---------------------------------------------------------------- backoff
\* Mutant of GetDelay: the exponent is dropped, every retry waits the
\* initial delay.
GetDelayFlat(n, u) ==
    LET d == Min(Ms(InitialDelaySec), Ms(MaxDelaySec))
    IN  d + (d * JitterTenths * u) \div (10 * JitterDen)

\* A get_delay whose jitter is symmetric: between -20% and +20%.
GetDelaySymmetric(n, u) ==
    LET d == Min(Ms(InitialDelaySec) * Pow2(n), Ms(MaxDelaySec))
    IN  d + (d * JitterTenths * (2 * u - JitterDen)) \div (10 * JitterDen)

\* A get_delay whose jitter reaches 120% of the delay.
GetDelayWideJitter(n, u) ==
    LET d == Min(Ms(InitialDelaySec) * Pow2(n), Ms(MaxDelaySec))
    IN  d + (d * 12 * u) \div (10 * JitterDen)

\* ExponentialBackoffRetry.get_delay(attempt) with jitter draw u / JitterDen.
GetDelay(n, u) ==
    LET d == Min(Ms(InitialDelaySec) * Pow2(n), Ms(MaxDelaySec))
    IN  d + (d * JitterTenths * u) \div (10 * JitterDen)

\* ExponentialBackoffRetry.get_delay(attempt, jitter=False)
GetDelayNoJitter(n) == Min(Ms(InitialDelaySec) * Pow2(n), Ms(MaxDelaySec))

\* The arguments of two calls get_delay(attempt, jitter) and
\* get_delay(attempt + 1, jitter) with the draws u1 / JitterDen and
\* u2 / JitterDen of random.random().
BackoffArgs(n, j, u1, u2) == [attempt |-> n, jitter |-> j, draws |-> <<u1, u2>>]

\* get_delay(attempt, jitter) with `if jitter:` taken or not.
GetDelayArg(n, j, u) == IF j THEN GetDelay(n, u) ELSE GetDelayNoJitter(n)

\* The next of the two calls is made and returns.
BackoffGetDelay ==
    /\ Len(bdelays) < 2
    /\ bdelays' = Append(bdelays,
                         GetDelayArg(bargs.attempt + Len(bdelays), bargs.jitter,
                                     bargs.draws[Len(bdelays) + 1]))
    /\ UNCHANGED <<bargs, trackerVars, apiVars, now, queueVars, wrapperVars,
                   cacheVars>>

BackoffNext == BackoffGetDelay

\* ------------------------------------------------------------------ cache
\* services/github_service.py: _cache, get_cached, set_cached and
\* GitHubService.analyze_repository.
CacheKeys == {"k1", "k2"}
\* cache_key of the repository analyze_repository is called for
AnalysisKey == "k1"
\* cache_key of the path list_repo_files is called for
ListKey == "k2"
\* Callers of get_cached / set_cached running in threads of their own.
CacheThreads == {"c1", "c2"}

\* A value: the n-th one produced in the run; empty when it is an empty
\* list or dict.
Value(n, empty) == [n |-> n, empty |-> empty, partial |-> FALSE]
\* The n-th value when it is an analysis that lacks what a failed GitHub call
\* would have given.
PartialValue(n) == [n |-> n, empty |-> FALSE, partial |-> TRUE]
NoValue == Value(0, TRUE)

\* bool(value), as in `if cached:`
ValueTruthy(v) == ~v.empty

\* _cache[key] = (value, timestamp)
Entry(v, t) == Some([value |-> v, ts |-> t])

\* An age test that lets an entry live twice as long.
FreshDoubled(ts, t) == t - ts < 2 * Ms(CacheTtlSec)

\* time.time() - timestamp < _cache_ttl
Fresh(ts, t) == t - ts < Ms(CacheTtlSec)

CacheCall(op, key, empty) == [op |-> op, key |-> key, empty |-> empty]
NoCacheCall == CacheCall("none", "k1", FALSE)
CacheCalls ==
    {CacheCall("get_cached", k, FALSE) : k \in CacheKeys}
    \cup {CacheCall("set_cached", k, e) : k \in CacheKeys, e \in BOOLEAN}

CacheRet(op, key, kind, v) ==
    [op |-> op, key |-> key, kind |-> kind, value |-> v, at |-> now,
     seq |-> cseq + 1]
NoCacheRet == [op |-> "none", key |-> "k1", kind |-> "none", value |-> NoValue,
               at |-> 0, seq |-> 0]
NoSet == [seq |-> 0, at |-> 0, value |-> NoValue, prevAt |-> -1]
\* The record of a write of value v made now over the write `last`.
Written(v, last) ==
    [seq |-> cseq + 1, at |-> now, value |-> v,
     prevAt |-> IF last.seq > 0 THEN last.at ELSE -1]

\* A thread calls get_cached or set_cached.
CCall(t) ==
    /\ cpc[t] = "idle"
    /\ cseq + Cardinality({u \in CacheThreads : cpc[u] # "idle"}) < MaxCacheCalls
    /\ \E c \in CacheCalls : ccall' = [ccall EXCEPT ![t] = c]
    /\ cpc' = [cpc EXCEPT ![t] = "called"]
    /\ UNCHANGED <<cache, clocal, cret, cseq, gen, lastSet, cticks, apc, aForce,
                   aCalls, aRet>>
    /\ UNCHANGED <<trackerVars, apiVars, now, queueVars, wrapperVars,
                   backoffVars, listVars>>

\* set_cached: _cache[key] = (value, time.time())
SetCached(t) ==
    /\ cpc[t] = "called"
    /\ ccall[t].op = "set_cached"
    /\ LET k == ccall[t].key
           v == Value(gen + 1, ccall[t].empty)
       IN  /\ cache' = [cache EXCEPT ![k] = Entry(v, now)]
           /\ lastSet' = [lastSet EXCEPT ![k] = Written(v, lastSet[k])]
           /\ cret' = [cret EXCEPT ![t] = CacheRet("set_cached", k, "stored", v)]
    /\ gen' = gen + 1
    /\ cseq' = cseq + 1
    /\ cpc' = [cpc EXCEPT ![t] = "idle"]
    /\ UNCHANGED <<ccall, clocal, cticks, apc, aForce, aCalls, aRet>>
    /\ UNCHANGED <<trackerVars, apiVars, now, queueVars, wrapperVars,
                   backoffVars, listVars>>

\* get_cached, line 37: if key in _cache
GetCheck(t) ==
    /\ cpc[t] = "called"
    /\ ccall[t].op = "get_cached"
    /\ IF cache[ccall[t].key] # None
       THEN /\ cpc' = [cpc EXCEPT ![t] = "read"]
            /\ UNCHANGED <<cret, cseq>>
       ELSE /\ cpc' = [cpc EXCEPT ![t] = "idle"]
            /\ cret' = [cret EXCEPT ![t] =
                           CacheRet("get_cached", ccall[t].key, "miss", NoValue)]
            /\ cseq' = cseq + 1
    /\ UNCHANGED <<cache, ccall, clocal, gen, lastSet, cticks, apc, aForce,
                   aCalls, aRet>>
    /\ UNCHANGED <<trackerVars, apiVars, now, queueVars, wrapperVars,
                   backoffVars, listVars>>

\* get_cached, lines 38-40: value, timestamp = _cache[key] (KeyError when
\* the key has gone), then the age test and `return value`.
GetRead(t) ==
    /\ cpc[t] = "read"
    /\ LET k == ccall[t].key IN
        IF cache[k] = None
        THEN /\ cret' = [cret EXCEPT ![t] =
                            CacheRet("get_cached", k, "error", NoValue)]
             /\ cseq' = cseq + 1
             /\ cpc' = [cpc EXCEPT ![t] = "idle"]
             /\ UNCHANGED clocal
        ELSE IF Fresh(cache[k][1].ts, now)
             THEN /\ cret' = [cret EXCEPT ![t] =
                                 CacheRet("get_cached", k, "hit", cache[k][1].value)]
                  /\ cseq' = cseq + 1
                  /\ cpc' = [cpc EXCEPT ![t] = "idle"]
                  /\ UNCHANGED clocal
             ELSE /\ clocal' = [clocal EXCEPT ![t] = cache[k]]
                  /\ cpc' = [cpc EXCEPT ![t] = "del"]
                  /\ UNCHANGED <<cret, cseq>>
    /\ UNCHANGED <<cache, ccall, gen, lastSet, cticks, apc, aForce, aCalls, aRet>>
    /\ UNCHANGED <<trackerVars, apiVars, now, queueVars, wrapperVars,
                   backoffVars, listVars>>

\* get_cached, lines 41-42: del _cache[key] (KeyError when the key has
\* gone), return None.
GetDel(t) ==
    /\ cpc[t] = "del"
    /\ LET k == ccall[t].key IN
        IF cache[k] = None
        THEN /\ cret' = [cret EXCEPT ![t] =
                            CacheRet("get_cached", k, "error", NoValue)]
             /\ UNCHANGED cache
        ELSE /\ cache' = [cache EXCEPT ![k] = None]
             /\ cret' = [cret EXCEPT ![t] =
                            CacheRet("get_cached", k, "miss", NoValue)]
    /\ cseq' = cseq + 1
    /\ cpc' = [cpc EXCEPT ![t] = "idle"]
    /\ UNCHANGED <<ccall, clocal, gen, lastSet, cticks, apc, aForce, aCalls, aRet>>
    /\ UNCHANGED <<trackerVars, apiVars, now, queueVars, wrapperVars,
                   backoffVars, listVars>>

\* time.time() advances by a second or by the TTL.
CacheTickSteps == {1000, Ms(CacheTtlSec)}
CacheTick ==
    /\ cticks < MaxCacheTicks
    /\ cticks' = cticks + 1
    /\ \E dt \in CacheTickSteps : now' = now + dt
    /\ UNCHANGED <<cache, cpc, ccall, clocal, cret, cseq, gen, lastSet, apc,
                   aForce, aCalls, aRet>>
    /\ UNCHANGED <<trackerVars, apiVars, queueVars, wrapperVars,
                   backoffVars, listVars>>

\* get_cached run without interruption (a coroutine of the event loop
\* calls it between two awaits): the value returned, None for a miss ...
GetCachedValue(c, k, t) ==
    IF c[k] # None /\ Fresh(c[k][1].ts, t) THEN Some(c[k][1].value) ELSE None
\* A get_cached that sweeps every expired entry out of the cache.
GetCachedCacheSweep(c, k, t) ==
    [j \in DOMAIN c |-> IF c[j] # None /\ ~Fresh(c[j][1].ts, t) THEN None ELSE c[j]]

\* ... and the cache it leaves.
GetCachedCache(c, k, t) ==
    IF c[k] # None /\ ~Fresh(c[k][1].ts, t) THEN [c EXCEPT ![k] = None] ELSE c

\* An analyze_repository that reads the cache whatever force_refresh is.
ACallNoBypass ==
    /\ apc = "idle"
    /\ aCalls < MaxAnalyzeCalls
    /\ aCalls' = aCalls + 1
    /\ \E force \in BOOLEAN :
        /\ aForce' = Append(aForce, force)
        /\ LET cached == GetCachedValue(cache, AnalysisKey, now) IN
            /\ cache' = GetCachedCache(cache, AnalysisKey, now)
            /\ IF cached # None /\ ValueTruthy(cached[1])
               THEN /\ apc' = "idle"
                    /\ aRet' = [kind |-> "cached", value |-> cached[1],
                                at |-> now, call |-> aCalls + 1]
               ELSE /\ apc' = "fetching"
                    /\ UNCHANGED aRet
    /\ fetches' = IF apc' = "fetching" THEN fetches + 1 ELSE fetches
    /\ UNCHANGED <<cpc, ccall, clocal, cret, cseq, gen, lastSet, cticks>>
    /\ UNCHANGED <<trackerVars, apiVars, now, queueVars, wrapperVars,
                   backoffVars, lRet, lCalls>>

\* analyze_repository, lines 87-98: the cache is read unless force_refresh;
\* the cached analysis is returned when it is truthy.
ACall ==
    /\ apc = "idle"
    /\ aCalls < MaxAnalyzeCalls
    /\ aCalls' = aCalls + 1
    /\ \E force \in BOOLEAN :
        /\ aForce' = Append(aForce, force)
        /\ IF force
           THEN /\ apc' = "fetching"
                /\ UNCHANGED <<cache, aRet>>
           ELSE LET cached == GetCachedValue(cache, AnalysisKey, now) IN
                /\ cache' = GetCachedCache(cache, AnalysisKey, now)
                /\ IF cached # None /\ ValueTruthy(cached[1])
                   THEN /\ apc' = "idle"
                        /\ aRet' = [kind |-> "cached", value |-> cached[1],
                                    at |-> now, call |-> aCalls + 1]
                   ELSE /\ apc' = "fetching"
                        /\ UNCHANGED aRet
    /\ fetches' = IF apc' = "fetching" THEN fetches + 1 ELSE fetches
    /\ UNCHANGED <<cpc, ccall, clocal, cret, cseq, gen, lastSet, cticks>>
    /\ UNCHANGED <<trackerVars, apiVars, now, queueVars, wrapperVars,
                   backoffVars, lRet, lCalls>>

\* analyze_repository, lines 100-281: the analysis is fetched from GitHub,
\* cached and returned.
AFetched ==
    /\ apc = "fetching"
    /\ LET v == Value(gen + 1, FALSE) IN
        /\ cache' = [cache EXCEPT ![AnalysisKey] = Entry(v, now)]
        /\ lastSet' = [lastSet EXCEPT ![AnalysisKey] =
                           Written(v, lastSet[AnalysisKey])]
        /\ aRet' = [kind |-> "fetched", value |-> v, at |-> now, call |-> aCalls]
    /\ gen' = gen + 1
    /\ cseq' = cseq + 1
    /\ apc' = "idle"
    /\ UNCHANGED <<cpc, ccall, clocal, cret, cticks, aForce, aCalls>>
    /\ UNCHANGED <<trackerVars, apiVars, now, queueVars, wrapperVars,
                   backoffVars, listVars>>

\* analyze_repository, lines 151-281: a GitHub call made inside the inner
\* try raises GithubException (line 275: except GithubException: pass), or
\* the file analysis raises (lines 245-267); the analysis built so far is
\* cached and returned.
APartial ==
    /\ apc = "fetching"
    /\ LET v == PartialValue(gen + 1) IN
        /\ cache' = [cache EXCEPT ![AnalysisKey] = Entry(v, now)]
        /\ lastSet' = [lastSet EXCEPT ![AnalysisKey] =
                           Written(v, lastSet[AnalysisKey])]
        /\ aRet' = [kind |-> "partial", value |-> v, at |-> now, call |-> aCalls]
    /\ gen' = gen + 1
    /\ cseq' = cseq + 1
    /\ apc' = "idle"
    /\ UNCHANGED <<cpc, ccall, clocal, cret, cticks, aForce, aCalls>>
    /\ UNCHANGED <<trackerVars, apiVars, now, queueVars, wrapperVars,
                   backoffVars, listVars>>

\* What the GitHub calls of list_repo_files come to: a file list, an empty
\* file list, or an exception.
ListOutcomes == {"files", "empty", "raised"}

NoListRet == [kind |-> "none", value |-> NoValue, at |-> 0, call |-> 0]

\* list_repo_files (no await in its body): the cache is read and the cached
\* list returned when it is truthy; otherwise the list is fetched, cached
\* and returned, or the exception of the fetch is raised.
ListRepoFiles ==
    /\ lCalls < MaxListCalls
    /\ lCalls' = lCalls + 1
    /\ LET cached == GetCachedValue(cache, ListKey, now)
           read == GetCachedCache(cache, ListKey, now)
       IN  IF cached # None /\ ValueTruthy(cached[1])
           THEN /\ cache' = read
                /\ lRet' = [kind |-> "cached", value |-> cached[1], at |-> now,
                            call |-> lCalls + 1]
                /\ UNCHANGED <<gen, cseq, lastSet, fetches>>
           ELSE /\ fetches' = fetches + 1
                /\ \E outcome \in ListOutcomes :
                    IF outcome = "raised"
                    THEN /\ cache' = read
                         /\ lRet' = [kind |-> "raised", value |-> NoValue,
                                     at |-> now, call |-> lCalls + 1]
                         /\ UNCHANGED <<gen, cseq, lastSet>>
                    ELSE LET v == Value(gen + 1, outcome = "empty") IN
                         /\ cache' = [read EXCEPT ![ListKey] = Entry(v, now)]
                         /\ lastSet' = [lastSet EXCEPT ![ListKey] =
                                            Written(v, lastSet[ListKey])]
                         /\ lRet' = [kind |-> "fetched", value |-> v, at |-> now,
                                     call |-> lCalls + 1]
                         /\ gen' = gen + 1
                         /\ cseq' = cseq + 1
    /\ UNCHANGED <<cpc, ccall, clocal, cret, cticks, apc, aForce, aCalls, aRet>>
    /\ UNCHANGED <<trackerVars, apiVars, now, queueVars, wrapperVars,
                   backoffVars>>

\* analyze_repository, lines 283-291: a GitHub call raises; the exception
\* is raised to the caller.
AFailed ==
    /\ apc = "fetching"
    /\ aRet' = [kind |-> "raised", value |-> NoValue, at |-> now, call |-> aCalls]
    /\ apc' = "idle"
    /\ UNCHANGED <<cache, cpc, ccall, clocal, cret, cseq, gen, lastSet, cticks,
                   aForce, aCalls>>
    /\ UNCHANGED <<trackerVars, apiVars, now, queueVars, wrapperVars,
                   backoffVars, listVars>>

\* Two threads calling get_cached and set_cached while the clock advances.
CacheThreadsNext ==
    \/ \E t \in CacheThreads : CCall(t)
    \/ \E t \in CacheThreads : SetCached(t)
    \/ \E t \in CacheThreads : GetCheck(t)
    \/ \E t \in CacheThreads : GetRead(t)
    \/ \E t \in CacheThreads : GetDel(t)
    \/ CacheTick

\* The coroutine on the event loop whose calls are recorded in cret.
LoopCaller == "c1"

\* get_cached called from a coroutine: lines 37-42 run without interruption.
LoopGetCached ==
    /\ cseq < MaxCacheCalls
    /\ \E k \in CacheKeys :
        LET got == GetCachedValue(cache, k, now) IN
        /\ cache' = GetCachedCache(cache, k, now)
        /\ ccall' = [ccall EXCEPT ![LoopCaller] = CacheCall("get_cached", k, FALSE)]
        /\ cret' = [cret EXCEPT ![LoopCaller] =
                       IF got = None
                       THEN CacheRet("get_cached", k, "miss", NoValue)
                       ELSE CacheRet("get_cached", k, "hit", got[1])]
    /\ cseq' = cseq + 1
    /\ UNCHANGED <<cpc, clocal, gen, lastSet, cticks, apc, aForce, aCalls, aRet>>
    /\ UNCHANGED <<trackerVars, apiVars, now, queueVars, wrapperVars,
                   backoffVars, listVars>>

\* A set_cached that keeps the timestamp of the entry it overwrites.
LoopSetCachedKeepStamp ==
    /\ cseq < MaxCacheCalls
    /\ \E k \in CacheKeys, e \in BOOLEAN :
        LET v == Value(gen + 1, e) IN
        /\ cache' = [cache EXCEPT ![k] =
                        Entry(v, IF cache[k] # None THEN cache[k][1].ts ELSE now)]
        /\ lastSet' = [lastSet EXCEPT ![k] = Written(v, lastSet[k])]
        /\ ccall' = [ccall EXCEPT ![LoopCaller] = CacheCall("set_cached", k, e)]
        /\ cret' = [cret EXCEPT ![LoopCaller] = CacheRet("set_cached", k, "stored", v)]
    /\ gen' = gen + 1
    /\ cseq' = cseq + 1
    /\ UNCHANGED <<cpc, clocal, cticks, apc, aForce, aCalls, aRet>>
    /\ UNCHANGED <<trackerVars, apiVars, now, queueVars, wrapperVars,
                   backoffVars, listVars>>

\* set_cached called from a coroutine: _cache[key] = (value, time.time())
LoopSetCached ==
    /\ cseq < MaxCacheCalls
    /\ \E k \in CacheKeys, e \in BOOLEAN :
        LET v == Value(gen + 1, e) IN
        /\ cache' = [cache EXCEPT ![k] = Entry(v, now)]
        /\ lastSet' = [lastSet EXCEPT ![k] = Written(v, lastSet[k])]
        /\ ccall' = [ccall EXCEPT ![LoopCaller] = CacheCall("set_cached", k, e)]
        /\ cret' = [cret EXCEPT ![LoopCaller] = CacheRet("set_cached", k, "stored", v)]
    /\ gen' = gen + 1
    /\ cseq' = cseq + 1
    /\ UNCHANGED <<cpc, clocal, cticks, apc, aForce, aCalls, aRet>>
    /\ UNCHANGED <<trackerVars, apiVars, now, queueVars, wrapperVars,
                   backoffVars, listVars>>

\* The coroutines of one event loop calling get_cached, set_cached and
\* analyze_repository while the clock advances.
CacheNext ==
    \/ LoopGetCached
    \/ LoopSetCached
    \/ ACall
    \/ AFetched
    \/ APartial
    \/ AFailed
    \/ CacheTick

\* The calls of analyze_repository and list_repo_files on one event loop
\* while the clock advances.
FetchNext ==
    \/ ACall
    \/ AFetched
    \/ APartial
    \/ AFailed
    \/ ListRepoFiles
    \/ CacheTick

\* ------------------------------------------------------------------ queue
\* The keyword arguments a caller passes to add_request (_endpoint,
\* _max_retries) and to the decorator (endpoint, max_retries), each left
\* out (None) or given.
EndpointArgs == {None} \cup {Some(e) : e \in UsedEndpoints \ {"core"}}
MaxRetriesArgs == {None} \cup {Some(m) : m \in (0..MaxRetriesBound) \ {DefaultMaxRetries}}

\* dict.pop(key, default); a keyword parameter with a default
Pop(arg, default) == IF arg = None THEN default ELSE arg[1]

PendingFuture == [state |-> "pending", payload |-> None]

\* asyncio.Future.done()
FutureDone(f) == f.state # "pending"

\* Mutant of InRange: range(max_retries + 1), one attempt too many.
InRangeInclusive(a, maxRetries) == a <= maxRetries

\* for attempt in range(max_retries): is there an iteration for `a`?
InRange(a, maxRetries) == a < maxRetries

\* A test that lets a backoff sleep follow the last attempt as well.
AttemptsRemainAlways(a, maxRetries) == a < maxRetries

\* process_queue / wrapper: attempt < max_retries - 1
AttemptsRemain(a, maxRetries) == a < maxRetries - 1

\* The error future.set_result / future.set_exception raise on a future that
\* is no longer pending.
InvalidState(op, a) == [tag |-> "InvalidStateError", op |-> op, at |-> a]

Event(ev, a, dur, tag) == [ev |-> ev, at |-> a, dur |-> dur, tag |-> tag]

SeqRange(s) == {s[i] : i \in 1..Len(s)}

\* RequestQueue.__init__ and the module-level tracker, before any call.
\* The tracker, the queue, the decorator and the cache as they are
\* constructed.
InitServices ==
    /\ limits = InitLimits
    /\ authenticated = FALSE
    /\ now = 0
    /\ queue = <<>>
    /\ nextId = 0
    /\ futures = <<>>
    /\ processing = FALSE
    /\ pc = "idle"
    /\ cur = [id |-> 0, endpoint |-> "core", maxRetries |-> 0]
    /\ attempt = 0
    /\ lastError = None
    /\ delay = 0
    /\ trace = <<>>
    /\ startOrder = <<>>
    /\ resolveOrder = <<>>
    /\ handled = {}
    /\ failedOps = {}
    /\ wpc = "idle"
    /\ wCalls = 0
    /\ wMax = 0
    /\ wEndpoint = "core"
    /\ wAttempt = 0
    /\ wLastError = None
    /\ wDelay = 0
    /\ wResult = [kind |-> "none", payload |-> None]
    /\ wTrace = <<>>
    /\ lock = None
    /\ tpc = [t \in Threads |-> "idle"]
    /\ call = [t \in Threads |-> NoCall]
    /\ ret = [t \in Threads |-> NoRet]
    /\ seq = 0
    /\ stamp = [e \in Endpoints |-> [seq |-> 0, at |-> 0]]
    /\ written = {InitLimits[e] : e \in Endpoints}
    /\ ticks = 0
    /\ cache = [k \in CacheKeys |-> None]
    /\ cpc = [t \in CacheThreads |-> "idle"]
    /\ ccall = [t \in CacheThreads |-> NoCacheCall]
    /\ clocal = [t \in CacheThreads |-> None]
    /\ cret = [t \in CacheThreads |-> NoCacheRet]
    /\ cseq = 0
    /\ gen = 0
    /\ lastSet = [k \in CacheKeys |-> NoSet]
    /\ cticks = 0
    /\ apc = "idle"
    /\ aForce = <<>>
    /\ aCalls = 0
    /\ aRet = [kind |-> "none", value |-> NoValue, at |-> 0, call |-> 0]
    /\ lRet = NoListRet
    /\ lCalls = 0
    /\ fetches = 0

Init ==
    /\ InitServices
    /\ bargs = BackoffArgs(0, TRUE, 0, 0)
    /\ bdelays = <<>>

\* get_delay called on its own with any attempt, jitter flag and draws.
InitBackoff ==
    /\ InitServices
    /\ bargs \in {BackoffArgs(n, j, u1, u2) :
                     n \in 0..MaxAttemptArg, j \in BOOLEAN,
                     u1 \in JitterDraws, u2 \in JitterDraws}
    /\ bdelays = <<>>

\* add_request: create the future and put the item; the caller then awaits.
Submit ==
    /\ nextId < MaxOps
    /\ \E e \in EndpointArgs, m \in MaxRetriesArgs :
        queue' = Append(queue, [id |-> nextId + 1, endpointArg |-> e, maxRetriesArg |-> m])
    /\ nextId' = nextId + 1
    /\ futures' = Append(futures, PendingFuture)
    /\ UNCHANGED <<processing, pc, cur, attempt, lastError, delay, trace,
                   startOrder, resolveOrder, handled, failedOps>>
    /\ UNCHANGED <<trackerVars, apiVars, now, wrapperVars, cacheVars, backoffVars>>

\* The caller of add_request gives up (asyncio.wait_for timing out, or its
\* task being cancelled): the future it awaits is cancelled.
CallerAbandon ==
    /\ \E i \in 1..nextId :
        /\ futures[i].state = "pending"
        /\ futures' = [futures EXCEPT ![i].state = "cancelled"]
    /\ UNCHANGED <<queue, nextId, processing, pc, cur, attempt, lastError, delay,
                   trace, startOrder, resolveOrder, handled, failedOps>>
    /\ UNCHANGED <<trackerVars, apiVars, now, wrapperVars, cacheVars, backoffVars>>

\* process_queue is started as a task: self.processing = True.
StartConsumer ==
    /\ pc = "idle"
    /\ processing' = TRUE
    /\ pc' = "get"
    /\ UNCHANGED <<queue, nextId, futures, cur, attempt, lastError, delay, trace,
                   startOrder, resolveOrder, handled, failedOps>>
    /\ UNCHANGED <<trackerVars, apiVars, now, wrapperVars, cacheVars, backoffVars>>

\* The consumer task is cancelled while suspended: except CancelledError.
CancelConsumer ==
    /\ pc \in {"get", "quota_sleep", "backoff_sleep"}
    /\ processing' = FALSE
    /\ pc' = "stopped"
    /\ UNCHANGED <<queue, nextId, futures, cur, attempt, lastError, delay, trace,
                   startOrder, resolveOrder, handled, failedOps>>
    /\ UNCHANGED <<trackerVars, apiVars, now, wrapperVars, cacheVars, backoffVars>>

\* Mutant of Dequeue: the newest item is taken (a LIFO queue).
DequeueLifo ==
    /\ pc = "get"
    /\ queue # <<>>
    /\ cur' = [id |-> queue[Len(queue)].id,
               endpoint |-> Pop(queue[Len(queue)].endpointArg, "core"),
               maxRetries |-> Pop(queue[Len(queue)].maxRetriesArg, DefaultMaxRetries)]
    /\ queue' = SubSeq(queue, 1, Len(queue) - 1)
    /\ attempt' = 0
    /\ lastError' = None
    /\ trace' = <<>>
    /\ pc' = "loop"
    /\ UNCHANGED <<nextId, futures, processing, delay, startOrder, resolveOrder,
                   handled, failedOps>>
    /\ UNCHANGED <<trackerVars, apiVars, now, wrapperVars, cacheVars, backoffVars>>

\* func, args, kwargs, future = await self.queue.get(), and the pops.
Dequeue ==
    /\ pc = "get"
    /\ queue # <<>>
    /\ cur' = [id |-> Head(queue).id,
               endpoint |-> Pop(Head(queue).endpointArg, "core"),
               maxRetries |-> Pop(Head(queue).maxRetriesArg, DefaultMaxRetries)]
    /\ queue' = Tail(queue)
    /\ attempt' = 0
    /\ lastError' = None
    /\ trace' = <<>>
    /\ pc' = "loop"
    /\ UNCHANGED <<nextId, futures, processing, delay, startOrder, resolveOrder,
                   handled, failedOps>>
    /\ UNCHANGED <<trackerVars, apiVars, now, wrapperVars, cacheVars, backoffVars>>

\* A loop head that checks the quota on the first attempt only.
LoopHeadFirstOnly ==
    /\ pc = "loop"
    /\ IF InRange(attempt, cur.maxRetries)
       THEN /\ lock = None
            /\ LET wait_time == IF attempt = 0
                                THEN GetWaitTime(limits, cur.endpoint, now)
                                ELSE 0
               IN  IF wait_time > 0
                   THEN pc' = "quota_sleep" /\ delay' = wait_time
                   ELSE pc' = "call" /\ delay' = delay
       ELSE pc' = "after" /\ delay' = delay
    /\ UNCHANGED <<queue, nextId, futures, processing, cur, attempt, lastError,
                   trace, startOrder, resolveOrder, handled, failedOps>>
    /\ UNCHANGED <<trackerVars, apiVars, now, wrapperVars, cacheVars, backoffVars>>

\* Head of the for loop: the quota check of one attempt.
LoopHead ==
    /\ pc = "loop"
    /\ IF InRange(attempt, cur.maxRetries)
       THEN /\ lock = None
            /\ LET wait_time == GetWaitTime(limits, cur.endpoint, now)
               IN  IF wait_time > 0
                   THEN pc' = "quota_sleep" /\ delay' = wait_time
                   ELSE pc' = "call" /\ delay' = delay
       ELSE pc' = "after" /\ delay' = delay
    /\ UNCHANGED <<queue, nextId, futures, processing, cur, attempt, lastError,
                   trace, startOrder, resolveOrder, handled, failedOps>>
    /\ UNCHANGED <<trackerVars, apiVars, now, wrapperVars, cacheVars, backoffVars>>

\* await asyncio.sleep(wait_time) returns.
WakeQuota ==
    /\ pc = "quota_sleep"
    /\ now' = now + delay
    /\ trace' = Append(trace, Event("quota", attempt, delay, "sleep"))
    /\ pc' = "call"
    /\ UNCHANGED <<queue, nextId, futures, processing, cur, attempt, lastError,
                   delay, startOrder, resolveOrder, handled, failedOps>>
    /\ UNCHANGED <<trackerVars, apiVars, wrapperVars, cacheVars, backoffVars>>

\* What the try block raises when func produced `res`: None when
\* future.set_result(result) went through.
RaisedInTry(res, fut) ==
    IF res.tag = "ok"
    THEN IF FutureDone(fut) THEN Some(InvalidState(res.op, res.at)) ELSE None
    ELSE Some(res)

\* The try/except of one attempt: func(*args, **kwargs) produces `res`.
Execute ==
    /\ pc = "call"
    /\ \E tag \in {"ok"} \cup QueueErrors :
        LET res == [tag |-> tag, op |-> cur.id, at |-> attempt]
            raised == RaisedInTry(res, futures[cur.id])
        IN  /\ trace' = Append(trace, Event("exec", attempt, 0, tag))
            /\ startOrder' = IF cur.id \in SeqRange(startOrder) THEN startOrder
                             ELSE Append(startOrder, cur.id)
            /\ failedOps' = IF tag = "ok" THEN failedOps ELSE failedOps \cup {cur.id}
            /\ IF raised = None
               THEN \* future.set_result(result); break
                    /\ futures' = [futures EXCEPT ![cur.id] =
                                      [state |-> "result", payload |-> Some(res)]]
                    /\ resolveOrder' = Append(resolveOrder, cur.id)
                    /\ pc' = "after"
                    /\ UNCHANGED <<lastError, delay>>
               ELSE /\ lastError' = raised
                    /\ IF AttemptsRemain(attempt, cur.maxRetries)
                       THEN \* delay = retry.get_delay(attempt); sleep
                            /\ \E u \in SleepJitterDraws : delay' = GetDelay(attempt, u)
                            /\ pc' = "backoff_sleep"
                            /\ UNCHANGED <<futures, resolveOrder>>
                       ELSE \* future.set_exception(last_error)
                            IF FutureDone(futures[cur.id])
                            THEN \* InvalidStateError leaves process_queue
                                 /\ pc' = "crashed"
                                 /\ UNCHANGED <<futures, resolveOrder, delay>>
                            ELSE /\ futures' = [futures EXCEPT ![cur.id] =
                                      [state |-> "exception", payload |-> raised]]
                                 /\ resolveOrder' = Append(resolveOrder, cur.id)
                                 /\ pc' = "after"
                                 /\ UNCHANGED delay
    /\ UNCHANGED <<queue, nextId, processing, cur, attempt, handled>>
    /\ UNCHANGED <<trackerVars, apiVars, now, wrapperVars, cacheVars, backoffVars>>

\* Mutant of WakeBackoff: the failed operation is put back at the end of
\* the queue and the consumer takes the next item.
WakeBackoffRequeue ==
    /\ pc = "backoff_sleep"
    /\ now' = now + delay
    /\ trace' = Append(trace, Event("backoff", attempt, delay, "sleep"))
    /\ queue' = Append(queue, [id |-> cur.id,
                               endpointArg |-> Some(cur.endpoint),
                               maxRetriesArg |-> Some(cur.maxRetries - 1)])
    /\ pc' = "get"
    /\ UNCHANGED <<nextId, futures, processing, cur, attempt, lastError, delay,
                   startOrder, resolveOrder, handled, failedOps>>
    /\ UNCHANGED <<trackerVars, apiVars, wrapperVars, cacheVars, backoffVars>>

\* A consumer that, when the backoff sleep ends, leaves the failed operation
\* unfinished and takes the next item.
WakeBackoffTakeNext ==
    /\ pc = "backoff_sleep"
    /\ now' = now + delay
    /\ trace' = Append(trace, Event("backoff", attempt, delay, "sleep"))
    /\ attempt' = attempt + 1
    /\ pc' = "get"
    /\ UNCHANGED <<queue, nextId, futures, processing, cur, lastError, delay,
                   startOrder, resolveOrder, handled, failedOps>>
    /\ UNCHANGED <<trackerVars, apiVars, wrapperVars, cacheVars, backoffVars>>

\* await asyncio.sleep(delay) returns; the for loop takes the next attempt.
WakeBackoff ==
    /\ pc = "backoff_sleep"
    /\ now' = now + delay
    /\ trace' = Append(trace, Event("backoff", attempt, delay, "sleep"))
    /\ attempt' = attempt + 1
    /\ pc' = "loop"
    /\ UNCHANGED <<queue, nextId, futures, processing, cur, lastError, delay,
                   startOrder, resolveOrder, handled, failedOps>>
    /\ UNCHANGED <<trackerVars, apiVars, wrapperVars, cacheVars, backoffVars>>

\* Mutant of Finish: the loop is left after the first item (no `while True`).
FinishAndStop ==
    /\ pc = "after"
    /\ IF ~FutureDone(futures[cur.id]) /\ lastError # None
       THEN /\ futures' = [futures EXCEPT ![cur.id] =
                              [state |-> "exception", payload |-> lastError]]
            /\ resolveOrder' = Append(resolveOrder, cur.id)
       ELSE UNCHANGED <<futures, resolveOrder>>
    /\ handled' = handled \cup {cur.id}
    /\ pc' = "stopped"
    /\ UNCHANGED <<queue, nextId, processing, cur, attempt, lastError, delay,
                   trace, startOrder, failedOps>>
    /\ UNCHANGED <<trackerVars, apiVars, now, wrapperVars, cacheVars, backoffVars>>

\* After the for loop: the guard on future.done(), then queue.task_done().
Finish ==
    /\ pc = "after"
    /\ IF ~FutureDone(futures[cur.id]) /\ lastError # None
       THEN /\ futures' = [futures EXCEPT ![cur.id] =
                              [state |-> "exception", payload |-> lastError]]
            /\ resolveOrder' = Append(resolveOrder, cur.id)
       ELSE UNCHANGED <<futures, resolveOrder>>
    /\ handled' = handled \cup {cur.id}
    /\ pc' = "get"
    /\ UNCHANGED <<queue, nextId, processing, cur, attempt, lastError, delay,
                   trace, startOrder, failedOps>>
    /\ UNCHANGED <<trackerVars, apiVars, now, wrapperVars, cacheVars, backoffVars>>

QueueNext ==
    \/ Submit
    \/ CallerAbandon
    \/ StartConsumer
    \/ CancelConsumer
    \/ Dequeue
    \/ LoopHead
    \/ WakeQuota
    \/ Execute
    \/ WakeBackoff
    \/ Finish

Spec == Init /\ [][QueueNext]_vars

\* The queue with callers that keep waiting and a consumer that is left
\* running.
FifoNext ==
    \/ Submit
    \/ StartConsumer
    \/ Dequeue
    \/ LoopHead
    \/ WakeQuota
    \/ Execute
    \/ WakeBackoff
    \/ Finish

SpecFifo == Init /\ [][FifoNext]_vars

\* The steps of the process_queue task. The event loop resumes the task
\* whenever the item, the timer or the call it waits for is ready, and
\* create_task(process_queue()) starts it.
ConsumerStep ==
    \/ StartConsumer
    \/ Dequeue
    \/ LoopHead
    \/ WakeQuota
    \/ Execute
    \/ WakeBackoff
    \/ Finish

\* One consumer that is started and left running, callers that keep
\* waiting, every sleep and every call of the action returning.
SpecLive == Init /\ [][FifoNext]_vars /\ WF_vars(ConsumerStep)

\* The tracker called from two threads while the clock advances.
SpecTracker == Init /\ [][TrackerNext]_vars

\* -------------------------------------------------------------- decorator
NoResult == [kind |-> "none", payload |-> None]

\* A function decorated with with_rate_limit_handling(endpoint, max_retries)
\* is called: wrapper(*args, **kwargs) starts.
WCall ==
    /\ wpc \in {"idle", "done"}
    /\ wCalls < MaxCalls
    /\ wCalls' = wCalls + 1
    /\ \E m \in MaxRetriesArgs, e \in EndpointArgs :
        /\ wMax' = Pop(m, WrapperDefaultMaxRetries)
        /\ wEndpoint' = Pop(e, "core")
    /\ wAttempt' = 0
    /\ wLastError' = None
    /\ wResult' = NoResult
    /\ wTrace' = <<>>
    /\ wpc' = "loop"
    /\ UNCHANGED wDelay
    /\ UNCHANGED <<trackerVars, apiVars, now, queueVars, cacheVars, backoffVars>>

\* Head of the wrapper's for loop: the quota check of one attempt.
WLoopHead ==
    /\ wpc = "loop"
    /\ IF InRange(wAttempt, wMax)
       THEN /\ lock = None
            /\ LET wait_time == GetWaitTime(limits, wEndpoint, now)
               IN  IF wait_time > 0
                   THEN wpc' = "quota_sleep" /\ wDelay' = wait_time
                   ELSE wpc' = "call" /\ wDelay' = wDelay
       ELSE wpc' = "after" /\ wDelay' = wDelay
    /\ UNCHANGED <<wCalls, wMax, wEndpoint, wAttempt, wLastError, wResult, wTrace>>
    /\ UNCHANGED <<trackerVars, apiVars, now, queueVars, cacheVars, backoffVars>>

\* time.sleep(wait_time) returns.
WWakeQuota ==
    /\ wpc = "quota_sleep"
    /\ now' = now + wDelay
    /\ wTrace' = Append(wTrace, Event("quota", wAttempt, wDelay, "sleep"))
    /\ wpc' = "call"
    /\ UNCHANGED <<wCalls, wMax, wEndpoint, wAttempt, wLastError, wDelay, wResult>>
    /\ UNCHANGED <<trackerVars, apiVars, queueVars, cacheVars, backoffVars>>

\* Mutant of WShouldRetry: the classification is dropped, any error is
\* retried while attempts remain.
WShouldRetryAny(e, a, maxRetries) == AttemptsRemain(a, maxRetries)

\* wrapper: is_rate_limit and attempt < max_retries - 1
WShouldRetry(e, a, maxRetries) == IsRateLimit(e) /\ AttemptsRemain(a, maxRetries)

\* result = func(*args, **kwargs) and the except clause of one attempt.
WExecute ==
    /\ wpc = "call"
    /\ \E tag \in {"ok"} \cup WrapperErrors :
        LET res == [tag |-> tag, op |-> 0, at |-> wAttempt]
        IN  /\ wTrace' = Append(wTrace, Event("exec", wAttempt, 0, tag))
            /\ IF tag = "ok"
               THEN \* return result
                    /\ wResult' = [kind |-> "returned", payload |-> Some(res)]
                    /\ wpc' = "done"
                    /\ UNCHANGED <<wLastError, wDelay, wAttempt>>
               ELSE /\ wLastError' = Some(res)
                    /\ IF WShouldRetry(res, wAttempt, wMax)
                       THEN /\ \E u \in SleepJitterDraws : wDelay' = GetDelay(wAttempt, u)
                            /\ wpc' = "backoff_sleep"
                            /\ UNCHANGED <<wResult, wAttempt>>
                       ELSE IF ~IsRateLimit(res)
                            THEN \* raise
                                 /\ wResult' = [kind |-> "raised", payload |-> Some(res)]
                                 /\ wpc' = "done"
                                 /\ UNCHANGED <<wDelay, wAttempt>>
                            ELSE \* rate limit error on the last attempt
                                 /\ wAttempt' = wAttempt + 1
                                 /\ wpc' = "loop"
                                 /\ UNCHANGED <<wResult, wDelay>>
    /\ UNCHANGED <<wCalls, wMax, wEndpoint>>
    /\ UNCHANGED <<trackerVars, apiVars, now, queueVars, cacheVars, backoffVars>>

\* time.sleep(delay) returns; the for loop takes the next attempt.
WWakeBackoff ==
    /\ wpc = "backoff_sleep"
    /\ now' = now + wDelay
    /\ wTrace' = Append(wTrace, Event("backoff", wAttempt, wDelay, "sleep"))
    /\ wAttempt' = wAttempt + 1
    /\ wpc' = "loop"
    /\ UNCHANGED <<wCalls, wMax, wEndpoint, wLastError, wDelay, wResult>>
    /\ UNCHANGED <<trackerVars, apiVars, queueVars, cacheVars, backoffVars>>

\* After the for loop: raise last_error if there is one; otherwise the
\* function body ends and the call returns None.
WFinish ==
    /\ wpc = "after"
    /\ wResult' = IF wLastError # None
                  THEN [kind |-> "raised", payload |-> wLastError]
                  ELSE [kind |-> "returned", payload |-> None]
    /\ wpc' = "done"
    /\ UNCHANGED <<wCalls, wMax, wEndpoint, wAttempt, wLastError, wDelay, wTrace>>
    /\ UNCHANGED <<trackerVars, apiVars, now, queueVars, cacheVars, backoffVars>>

WrapperNext ==
    \/ WCall
    \/ WLoopHead
    \/ WWakeQuota
    \/ WExecute
    \/ WWakeBackoff
    \/ WFinish

SpecWrapper == Init /\ [][WrapperNext]_vars

\* One operation on the queue and one call through the decorator, side by
\* side: the two call shapes on the same tracker and clock.
SubmitOne == nextId = 0 /\ Submit
WCallOnce == wCalls = 0 /\ WCall

BothNext ==
    \/ SubmitOne
    \/ CallerAbandon
    \/ StartConsumer
    \/ Dequeue
    \/ LoopHead
    \/ WakeQuota
    \/ Execute
    \/ WakeBackoff
    \/ Finish
    \/ WCallOnce
    \/ WLoopHead
    \/ WWakeQuota
    \/ WExecute
    \/ WWakeBackoff
    \/ WFinish

SpecBoth == Init /\ [][BothNext]_vars

\* The classes responses are recorded for while the queue runs.
RecordedEndpoints == {"graphql", "core"}

\* A coroutine on the consumer's event loop calls
\* rate_limiter.update_from_response(headers, e): the method body runs
\* without interruption between two steps of process_queue.
RecordResponse ==
    /\ seq < MaxTrackerCalls
    /\ lock = None
    /\ seq' = seq + 1
    /\ \E e \in RecordedEndpoints, h \in HeaderChoices(now) :
        IF ParseFails(limits, e, h)
        THEN UNCHANGED <<trackerVars, stamp, written>>
        ELSE LET rec == ParsedRecord(limits, e, h) IN
             /\ limits' = StoreRecord(limits, e, rec)
             /\ authenticated' = NewAuthenticated(authenticated, e, rec.limit)
             /\ written' = written \cup {rec}
             /\ stamp' = [stamp EXCEPT ![e] = [seq |-> seq + 1, at |-> now]]
    /\ UNCHANGED <<now, lock, tpc, call, ret, ticks, queueVars, wrapperVars,
                   cacheVars, backoffVars>>

\* One operation on the queue, with a caller that keeps waiting and a
\* consumer that is left running, while responses are recorded in the
\* tracker.
QuotaNext ==
    \/ SubmitOne
    \/ StartConsumer
    \/ Dequeue
    \/ LoopHead
    \/ WakeQuota
    \/ Execute
    \/ WakeBackoff
    \/ Finish
    \/ RecordResponse

SpecQuota == Init /\ [][QuotaNext]_vars

\* One call through the decorator (one attempt, class 'core') while the
\* threads call the tracker.
WCallOneAttempt == WCallOnce /\ wMax' = 1 /\ wEndpoint' = "core"

FrameNext ==
    \/ TrackerNext
    \/ WCallOneAttempt
    \/ WLoopHead
    \/ WWakeQuota
    \/ WExecute
    \/ WFinish

SpecFrame == Init /\ [][FrameNext]_vars

SpecCacheThreads == Init /\ [][CacheThreadsNext]_vars
SpecCache == Init /\ [][CacheNext]_vars
SpecFetch == Init /\ [][FetchNext]_vars
SpecBackoff == InitBackoff /\ [][BackoffNext]_vars

\* ---------------------------------------------------------------- history
Count(s, x) == Cardinality({k \in 1..Len(s) : s[k] = x})
Pos(s, x) == CHOOSE k \in 1..Len(s) : s[k] = x
IsPrefix(s, t) == Len(s) <= Len(t) /\ SubSeq(t, 1, Len(s)) = s

Execs(tr) == SelectSeq(tr, LAMBDA e : e.ev = "exec")
Backoffs(tr) == SelectSeq(tr, LAMBDA e : e.ev = "backoff")
NoQuota(tr) == SelectSeq(tr, LAMBDA e : e.ev # "quota")
Tags(tr) == [k \in 1..Len(tr) |-> tr[k].tag]
Kinds(tr) == [k \in 1..Len(tr) |-> tr[k].ev]
Ats(tr) == [k \in 1..Len(tr) |-> tr[k].at]

RateLimitTag(tag) == tag # "ok" /\ IsRateLimitText(ErrorText(tag))
PermanentTag(tag) == tag # "ok" /\ ~IsRateLimitText(ErrorText(tag))

\* The consumer has finished with the operation it dequeued last; trace is
\* then the whole history of that operation.
CurHandled == cur.id # 0 /\ cur.id \in handled
NotAbandoned(i) == futures[i].state # "cancelled"

\* initial_delay * 2^n <= d <= initial_delay * 2^n * (1 + 0.2), in ms
IsDelayOf(d, n) ==
    /\ Ms(InitialDelaySec) * Pow2(n) <= d
    /\ 10 * d <= Ms(InitialDelaySec) * Pow2(n) * (10 + JitterTenths)

\* ------------------------------------------------------------ C1 .. C10

\* C1: every operation the consumer has finished handling (task_done) had
\* its future resolved by process_queue exactly once, and no future is ever
\* resolved a second time, for any _max_retries.
C1_ResolvedExactlyOnce ==
    \A i \in 1..nextId :
        /\ Count(resolveOrder, i) <= 1
        /\ i \in handled => Count(resolveOrder, i) = 1

\* C2: if X was enqueued before Y (X < Y) and Y's action has been executed,
\* then X's action was executed first.
C2_StartInSubmissionOrder ==
    \A y \in SeqRange(startOrder) : \A x \in 1..(y - 1) :
        /\ x \in SeqRange(startOrder)
        /\ Pos(startOrder, x) < Pos(startOrder, y)

\* C3: a retried operation keeps its slot.  When an operation has started
\* executing, every operation submitted before it has terminated (the
\* consumer is done with it); an operation that has started is never back
\* in the queue, and while the consumer works on an operation (quota wait,
\* execution, backoff) everything in the queue was submitted after it.
C3_RetryKeepsSlot ==
    /\ \A y \in SeqRange(startOrder) : \A x \in 1..(y - 1) : x \in handled
    /\ \A k \in 1..Len(queue) :
        /\ queue[k].id \notin SeqRange(startOrder)
        /\ queue[k].id \notin handled
        /\ cur.id < queue[k].id

\* C3 witness: the first operation is in the backoff before its third
\* attempt while a later operation waits in the queue.
C3_Witness ==
    /\ pc = "backoff_sleep"
    /\ cur.id = 1
    /\ attempt = 1
    /\ queue # <<>>

\* C4: on the happy path (no execution has raised, no caller has given up,
\* every operation the consumer finished was executed) the futures are
\* resolved in submission order, each with the value of its first
\* execution.
C4_HappyPathOrder ==
    ( /\ failedOps = {}
      /\ \A i \in 1..nextId : NotAbandoned(i)
      /\ handled \subseteq SeqRange(startOrder) )
    => /\ \A k \in 1..Len(resolveOrder) : resolveOrder[k] = k
       /\ \A i \in SeqRange(startOrder) :
            /\ i \in SeqRange(resolveOrder)
            /\ futures[i] = [state |-> "result",
                             payload |-> Some([tag |-> "ok", op |-> i, at |-> 0])]

\* C4 witness: A, B, C were all submitted before the consumer took the
\* first of them, and all three are resolved on the happy path.
C4_Witness ==
    /\ failedOps = {}
    /\ \A i \in 1..nextId : NotAbandoned(i)
    /\ handled = {1, 2, 3}
    /\ resolveOrder = <<1, 2, 3>>
    /\ startOrder = <<1, 2, 3>>

\* The retry path of C5 on the queue and through the decorator.
QueueRetryCase ==
    /\ CurHandled
    /\ NotAbandoned(cur.id)
    /\ cur.maxRetries = 3
    /\ Len(Execs(trace)) >= 3
    /\ RateLimitTag(Execs(trace)[1].tag)
    /\ RateLimitTag(Execs(trace)[2].tag)
    /\ Execs(trace)[3].tag = "ok"

WrapperRetryCase ==
    /\ wpc = "done"
    /\ wMax = 3
    /\ Len(Execs(wTrace)) >= 3
    /\ RateLimitTag(Execs(wTrace)[1].tag)
    /\ RateLimitTag(Execs(wTrace)[2].tag)
    /\ Execs(wTrace)[3].tag = "ok"

\* exec, backoff get_delay(0), exec, backoff get_delay(1), exec
RetryPathTrace(tr) ==
    /\ Kinds(NoQuota(tr)) = <<"exec", "backoff", "exec", "backoff", "exec">>
    /\ Ats(NoQuota(tr)) = <<0, 0, 1, 1, 2>>
    /\ IsDelayOf(Backoffs(tr)[1].dur, 0)
    /\ IsDelayOf(Backoffs(tr)[2].dur, 1)

\* C5: with max_retries = 3, rate-limit errors on the first and second
\* executions and a value on the third: the caller gets that value, the
\* action ran exactly 3 times and exactly two backoff sleeps happened, of
\* get_delay(0) and then get_delay(1); on the queue and in the decorator.
C5_RetryPath ==
    /\ QueueRetryCase =>
        /\ RetryPathTrace(trace)
        /\ futures[cur.id] = [state |-> "result",
                              payload |-> Some([tag |-> "ok", op |-> cur.id, at |-> 2])]
    /\ WrapperRetryCase =>
        /\ RetryPathTrace(wTrace)
        /\ wResult = [kind |-> "returned",
                      payload |-> Some([tag |-> "ok", op |-> 0, at |-> 2])]

\* C5 witness: both call shapes have gone through the retry path.
C5_Witness == QueueRetryCase /\ WrapperRetryCase

\* Every execution so far raised a rate-limit error.
AllRateLimited(tr) ==
    /\ Execs(tr) # <<>>
    /\ \A k \in 1..Len(Execs(tr)) : RateLimitTag(Execs(tr)[k].tag)

QueueExhaustedCase ==
    /\ CurHandled
    /\ NotAbandoned(cur.id)
    /\ cur.maxRetries >= 1
    /\ AllRateLimited(trace)

WrapperExhaustedCase ==
    /\ wpc = "done"
    /\ wMax >= 1
    /\ AllRateLimited(wTrace)

\* C6: when every execution raises a rate-limit error (max_retries >= 1),
\* the action is executed exactly max_retries times and the caller gets
\* the error of the last execution; on the queue and in the decorator.
C6_ExhaustedRetries ==
    /\ QueueExhaustedCase =>
        /\ Len(Execs(trace)) = cur.maxRetries
        /\ futures[cur.id].state = "exception"
        /\ futures[cur.id].payload =
              Some([tag |-> Execs(trace)[cur.maxRetries].tag, op |-> cur.id,
                    at |-> cur.maxRetries - 1])
    /\ WrapperExhaustedCase =>
        /\ Len(Execs(wTrace)) = wMax
        /\ wResult.kind = "raised"
        /\ wResult.payload =
              Some([tag |-> Execs(wTrace)[wMax].tag, op |-> 0, at |-> wMax - 1])

\* C6 witness: both call shapes exhausted three attempts.
C6_Witness ==
    /\ QueueExhaustedCase /\ cur.maxRetries = 3
    /\ WrapperExhaustedCase /\ wMax = 3

\* C7: on the queue, an execution that raises a permanent error is the
\* operation's only execution: nothing follows it (no backoff, no retry)
\* and the future carries that error at once.
C7_PermanentNotRetried ==
    \A k \in 1..Len(trace) :
        (trace[k].ev = "exec" /\ PermanentTag(trace[k].tag)) =>
            /\ k = Len(trace)
            /\ Len(Execs(trace)) = 1
            /\ pc # "backoff_sleep"
            /\ NotAbandoned(cur.id) =>
                  futures[cur.id] = [state |-> "exception",
                                     payload |-> Some([tag |-> trace[k].tag,
                                                       op |-> cur.id, at |-> trace[k].at])]

\* C8: in the decorator, an execution raising an error that is not
\* classified as rate-limited ends the call: the error is raised to the
\* caller, no execution and no sleep follows it, on any attempt.
C8_WrapperPermanentRaised ==
    \A k \in 1..Len(wTrace) :
        (wTrace[k].ev = "exec" /\ PermanentTag(wTrace[k].tag)) =>
            /\ k = Len(wTrace)
            /\ wpc = "done"
            /\ wResult = [kind |-> "raised",
                          payload |-> Some([tag |-> wTrace[k].tag, op |-> 0,
                                            at |-> wTrace[k].at])]

\* C8 witness: a permanent error on the third attempt, after two
\* rate-limit errors, was raised to the caller.
C8_Witness ==
    /\ wpc = "done"
    /\ wResult.kind = "raised"
    /\ Len(Execs(wTrace)) = 3
    /\ PermanentTag(Execs(wTrace)[3].tag)

\* What the caller of add_request and the caller of the decorated function
\* got: "value"/"error" with the tag and attempt it came from; a future left
\* pending; a call that returned None.
QueueDelivered ==
    LET f == futures[cur.id]
    IN  IF f.state = "result" THEN <<"value", f.payload[1].tag, f.payload[1].at>>
        ELSE IF f.state = "exception" THEN <<"error", f.payload[1].tag, f.payload[1].at>>
        ELSE <<"pending">>

WrapperDelivered ==
    IF wResult.kind = "returned" /\ wResult.payload # None
    THEN <<"value", wResult.payload[1].tag, wResult.payload[1].at>>
    ELSE IF wResult.kind = "raised"
    THEN <<"error", wResult.payload[1].tag, wResult.payload[1].at>>
    ELSE <<"none">>

\* C9: for the same max_retries and the same sequence of action outcomes
\* (each path consumed a prefix of it), the queue and the decorator execute
\* the action the same number of times, sleep the same backoffs and deliver
\* the same final result.
C9_SamePolicy ==
    ( /\ CurHandled
      /\ NotAbandoned(cur.id)
      /\ wpc = "done"
      /\ cur.maxRetries = wMax
      /\ \/ IsPrefix(Tags(Execs(trace)), Tags(Execs(wTrace)))
         \/ IsPrefix(Tags(Execs(wTrace)), Tags(Execs(trace))) )
    => /\ Len(Execs(trace)) = Len(Execs(wTrace))
       /\ Ats(Backoffs(trace)) = Ats(Backoffs(wTrace))
       /\ QueueDelivered = WrapperDelivered

\* C10: every finished call ends with the value of a successful execution
\* or with a failure raised to the caller, for any max_retries: a finished
\* decorator call never returns without one, and the future of an
\* operation the consumer finished is never left pending.
C10_ValueOrFailure ==
    /\ wpc = "done" =>
        \/ /\ wResult.kind = "returned"
           /\ wResult.payload # None
           /\ \E k \in 1..Len(wTrace) :
                /\ wTrace[k].ev = "exec" /\ wTrace[k].tag = "ok"
                /\ wResult.payload[1].at = wTrace[k].at
        \/ wResult.kind = "raised" /\ wResult.payload # None
    /\ \A i \in handled : futures[i].state # "pending"

\* C11: a caller abandoning its wait (the future of its operation is
\* cancelled while the operation is queued or in flight) never stops the
\* consumer loop: process_queue is not ended by an error of its own, so
\* the operations behind the abandoned one are still dequeued.
C11_AbandonKeepsConsumer ==
    (\E i \in 1..nextId : futures[i].state = "cancelled") => pc # "crashed"

\* Operation i waits in the queue with at least one attempt allowed.
QueuedWithAttempts(i) ==
    \E k \in 1..Len(queue) :
        /\ queue[k].id = i
        /\ Pop(queue[k].maxRetriesArg, DefaultMaxRetries) >= 1

Resolved(i) == i <= nextId /\ futures[i].state \in {"result", "exception"}

\* C12: with the consumer running, every operation enqueued with
\* max_retries >= 1 is eventually dequeued and its future is eventually
\* resolved, whatever the operations ahead of it do on their attempts.
C12_EventuallyResolved ==
    \A i \in 1..MaxOps :
        QueuedWithAttempts(i) ~> (i \in handled /\ Resolved(i))

\* The first operation failed on each of its three attempts and the one
\* behind it has been resolved.
C12_Witness ==
    /\ nextId >= 2
    /\ futures[1].state = "exception"
    /\ futures[1].payload # None /\ futures[1].payload[1].at = 2
    /\ 2 \in handled /\ Resolved(2)

\* The rate-limit metadata (X-RateLimit-Limit, -Remaining, -Reset) carried
\* by the response of an execution of func: a success and a rate-limit
\* failure carry it, another failure carries none.
ResponseMeta(tag) ==
    IF tag = "ok"
    THEN Some([limit |-> 60, remaining |-> 59, reset |-> 3600])
    ELSE IF IsRateLimitText(ErrorText(tag))
         THEN Some([limit |-> 60, remaining |-> 0, reset |-> 3600])
         ELSE None

LastExec(tr) == Execs(tr)[Len(Execs(tr))]

\* The record of the class holds the metadata.
Recorded(lim, endpoint, meta) ==
    /\ lim[endpoint].limit = meta.limit
    /\ lim[endpoint].remaining = meta.remaining
    /\ lim[endpoint].reset = Some(meta.reset)

\* C13: once the consumer or the decorator has computed the wait time that
\* follows an execution whose response carried rate-limit metadata
\* (success or failure), the tracker's record for that class holds that
\* metadata.
C13_TrackerUpdatedAfterExecution ==
    /\ ( /\ pc \in {"quota_sleep", "call"}
         /\ Execs(trace) # <<>>
         /\ ResponseMeta(LastExec(trace).tag) # None )
       => Recorded(limits, cur.endpoint, ResponseMeta(LastExec(trace).tag)[1])
    /\ ( /\ wpc \in {"quota_sleep", "call"}
         /\ Execs(wTrace) # <<>>
         /\ ResponseMeta(LastExec(wTrace).tag) # None )
       => Recorded(limits, wEndpoint, ResponseMeta(LastExec(wTrace).tag)[1])

\* Thread t takes a step of update_from_response.
InUpdate(t) ==
    /\ call[t].op = "update_from_response"
    /\ tpc[t] \in {"locked", "stored"}
    /\ tpc'[t] # tpc[t]

\* C14: a step that changes a record (limit, remaining, reset) or the
\* authenticated flag is a step of update_from_response: get_status,
\* get_all_statuses, get_wait_time, is_rate_limited and the execution of an
\* operation leave them unchanged.
C14_OnlyUpdateChangesRecords ==
    [][ (limits' # limits \/ authenticated' # authenticated)
            => \E t \in Threads : InUpdate(t) ]_vars

\* After an update, the reader has asked for the wait time and the decorator
\* has executed an operation whose response carried no rate-limit headers.
C14_Witness ==
    /\ limits["core"] # InitLimits["core"]
    /\ ret["reader"].op = "get_wait_time"
    /\ ret["reader"].seq > stamp["core"].seq
    /\ wpc = "done"
    /\ Execs(wTrace) # <<>>
    /\ ResponseMeta(LastExec(wTrace).tag) = None

\* The classes a caller may name: the tracked ones and an untracked one.
CallerEndpoints == Endpoints \cup {"other"}

\* C15: in every reachable tracker state, at the current clock and for
\* every class: remaining > 0 implies get_wait_time returns 0, and
\* get_wait_time returning more than 0 implies is_rate_limited.
C15_WaitAndLimitedAgree ==
    \A e \in CallerEndpoints :
        /\ limits[EffectiveEndpoint(limits, e)].remaining > 0
              => GetWaitTime(limits, e, now) = 0
        /\ GetWaitTime(limits, e, now) > 0 => IsRateLimited(limits, e)

\* After an update left 'core' with nothing remaining and a reset ahead,
\* the reader was told that the class is limited.
C15_Witness ==
    /\ stamp["core"].seq > 0
    /\ limits["core"].remaining = 0
    /\ GetWaitTime(limits, "core", now) > 0
    /\ ret["reader"].op = "is_rate_limited"
    /\ ret["reader"].seq > stamp["core"].seq
    /\ ret["reader"].ok

\* The last call thread t finished was get_wait_time, and the record it
\* read has not been stored anew since.
WaitTimeReturned(t) ==
    /\ ret[t].op = "get_wait_time"
    /\ ret[t].seq > stamp[EffectiveEndpoint(limits, ret[t].endpoint)].seq

\* C16: get_wait_time returns 0 when remaining > 0, otherwise
\* max(0, reset - now) when the reset instant is known (recorded and not
\* 0), otherwise 3600 seconds; and called within a second of an update
\* with limit 60, remaining 0 and reset d > 0 seconds after the update, it
\* returns d up to one second.
C16_WaitTimeValue ==
    \A t \in Threads :
        WaitTimeReturned(t) =>
            LET e == EffectiveEndpoint(limits, ret[t].endpoint)
                rec == limits[e]
                known == rec.reset # None /\ rec.reset[1] # 0
                d == rec.reset[1] - (stamp[e].at \div 1000)
            IN  /\ rec.remaining > 0 => ret[t].num = 0
                /\ (rec.remaining <= 0 /\ known) =>
                      /\ ret[t].num >= 0
                      /\ ret[t].num >= 1000 * rec.reset[1] - ret[t].at
                      /\ ret[t].num \in {0, 1000 * rec.reset[1] - ret[t].at}
                /\ (rec.remaining <= 0 /\ ~known) =>
                      ret[t].num = 1000 * FallbackWaitSec
                /\ ( /\ stamp[e].seq > 0
                     /\ rec.limit = 60 /\ rec.remaining = 0 /\ known
                     /\ d > 0
                     /\ ret[t].at - stamp[e].at <= 1000 ) =>
                      /\ ret[t].num >= 1000 * (d - 1)
                      /\ ret[t].num <= 1000 * (d + 1)

\* Half a second after an update with limit 60, remaining 0 and the reset
\* ResetAfterSec ahead, the reader got a wait just short of ResetAfterSec.
C16_Witness ==
    /\ WaitTimeReturned("reader")
    /\ ret["reader"].endpoint = "core"
    /\ stamp["core"].seq > 0
    /\ limits["core"].limit = 60 /\ limits["core"].remaining = 0
    /\ ret["reader"].at = stamp["core"].at + 500
    /\ ret["reader"].num >= 1000 * (ResetAfterSec - 1)
    /\ ret["reader"].num < 1000 * ResetAfterSec

\* Thread t finishes an update_from_response that stored a record of
\* 'core' with limit >= 5000.
RecordsAuthLimit(t) ==
    /\ tpc[t] = "stored"
    /\ tpc'[t] = "idle"
    /\ call[t].endpoint = "core"
    /\ limits["core"].limit >= AuthLimit

\* C17: the authenticated flag starts false, never goes back to false,
\* and becomes true exactly in an update_from_response that records
\* limit >= 5000 for 'core'.
C17_AuthenticatedMonotonic ==
    /\ ~authenticated
    /\ [][ /\ authenticated => authenticated'
           /\ (~authenticated /\ authenticated')
                 => \E t \in Threads : RecordsAuthLimit(t)
           /\ (\E t \in Threads : RecordsAuthLimit(t)) => authenticated' ]_vars

\* The flag is set and a later update has recorded a lower limit for 'core'.
C17_Witness ==
    /\ authenticated
    /\ limits["core"].limit < AuthLimit
    /\ stamp["core"].seq >= 2
    /\ \A t \in Threads : tpc[t] = "idle"

\* The caller of thread t changes a dict it was returned.
Mutates(t) == ~ret[t].touched /\ ret'[t].touched

\* C18: get_status and get_all_statuses return copies: a caller changing
\* a returned record leaves the stored records unchanged, and a step that
\* changes a stored record leaves every returned record unchanged.
C18_ReturnedCopies ==
    [][ /\ (\E t \in Threads : Mutates(t)) => limits' = limits
        /\ limits' # limits =>
              \A t \in Threads : ret'[t].recs = ret[t].recs ]_vars

\* The reader holds a record of 'core' it has changed, returned before
\* the last update of 'core'; the stored record differs from it.
C18_Witness ==
    /\ ret["reader"].op \in {"get_status", "get_all_statuses"}
    /\ ret["reader"].touched
    /\ stamp["core"].seq > ret["reader"].seq
    /\ "core" \in DOMAIN ret["reader"].recs
    /\ ret["reader"].recs["core"] # limits["core"]

\* C19: in every reachable tracker state every class's record has
\* remaining >= 0, whatever headers update_from_response was given.
C19_RemainingNonNegative ==
    \A e \in Endpoints : limits[e].remaining >= 0

\* C20: every record a reader (get_status, get_all_statuses, get_wait_time,
\* is_rate_limited) has read is, in all its fields, the record __init__ or
\* one update_from_response built; and the threads are inside
\* `with self.lock` one at a time.
C20_ReadsAreAtomic ==
    /\ \A t \in Threads : \A e \in DOMAIN ret[t].seen :
            ret[t].seen[e] \in written
    /\ \A t \in Threads : tpc[t] \in {"locked", "stored"} => lock = Some(t)

\* The reader made its call before the body of an update of 'core' ran,
\* ran its own body right after it and read the record that update stored.
C20_Witness ==
    /\ ret["reader"].op # "none"
    /\ call["reader"].since < stamp["core"].seq
    /\ ret["reader"].seq = stamp["core"].seq + 1
    /\ "core" \in DOMAIN ret["reader"].seen
    /\ ret["reader"].seen["core"] = limits["core"]
    /\ limits["core"] # InitLimits["core"]


\* ------------------------------------------------------------------ cache claims
\* A value some set_cached has stored.
Stored(v) == v.n \in 1..gen

\* C21: when get_cached and set_cached calls of concurrent callers
\* interleave on the same key, every call completes without an error, and a
\* get_cached returns a miss or a value that some set_cached stored.
C21_ConcurrentCallsSafe ==
    \A t \in CacheThreads :
        /\ cret[t].kind # "error"
        /\ cret[t].kind = "hit" => Stored(cret[t].value)


\* The step is a call of get_cached(k) returning.
GetReturns(k) ==
    /\ cseq' = cseq + 1
    /\ cret'[LoopCaller].seq = cseq'
    /\ cret'[LoopCaller].op = "get_cached"
    /\ cret'[LoopCaller].key = k

\* Key k was last written more than the TTL ago.
WrittenAndExpired(k) ==
    /\ lastSet[k].seq > 0
    /\ now - lastSet[k].at > Ms(CacheTtlSec)

\* C22: a get_cached(k) made when more than the TTL (300 s) has passed
\* since the last set_cached of k returns a miss.
C22_ExpiredReadMisses ==
    [][\A k \in CacheKeys :
        GetReturns(k) /\ WrittenAndExpired(k) => cret'[LoopCaller].kind = "miss"]_vars

C22_Witness ==
    /\ cret[LoopCaller].op = "get_cached"
    /\ cret[LoopCaller].kind = "miss"
    /\ lastSet[cret[LoopCaller].key].seq \in 1..(cret[LoopCaller].seq - 1)
    /\ cret[LoopCaller].at - lastSet[cret[LoopCaller].key].at > Ms(CacheTtlSec)


\* The step is a set_cached of key k: by a caller or at the end of
\* analyze_repository.
SetReturns(k) ==
    /\ cseq' = cseq + 1
    /\ lastSet'[k].seq = cseq'

\* The step is the cache read of a non-forced analyze_repository that
\* misses.
AnalyzeReadMisses(k) ==
    /\ k = AnalysisKey
    /\ aCalls' = aCalls + 1
    /\ ~aForce'[aCalls']
    /\ apc' = "fetching"

\* C23: eviction is lazy. An entry changes only in a set_cached of its key
\* or in a get_cached of its key that finds it at least TTL old, returns a
\* miss and leaves the key absent; a get_cached that reads an entry older
\* than the TTL removes it; the passage of time, a get_cached of another
\* key and a get_cached that hits change no entry.
C23_LazyEviction ==
    [][\A k \in CacheKeys :
        /\ cache'[k] # cache[k] =>
            \/ SetReturns(k) /\ cache'[k] = Entry(lastSet'[k].value, now)
            \/ /\ cache[k] # None
               /\ cache'[k] = None
               /\ now - cache[k][1].ts >= Ms(CacheTtlSec)
               /\ \/ GetReturns(k) /\ cret'[LoopCaller].kind = "miss"
                  \/ AnalyzeReadMisses(k)
        /\ GetReturns(k) /\ cache[k] # None /\ now - cache[k][1].ts > Ms(CacheTtlSec)
            => cache'[k] = None /\ cret'[LoopCaller].kind = "miss"
        /\ GetReturns(k) /\ cret'[LoopCaller].kind = "hit" => cache' = cache
        /\ now' # now => cache' = cache]_vars

\* An expired entry has been evicted by its read while another expired
\* entry, not read, is still in the cache.
C23_Witness ==
    /\ cret[LoopCaller].op = "get_cached"
    /\ cret[LoopCaller].kind = "miss"
    /\ cret[LoopCaller].seq = cseq
    /\ cache[cret[LoopCaller].key] = None
    /\ lastSet[cret[LoopCaller].key].seq > 0
    /\ \E j \in CacheKeys :
        /\ cache[j] # None
        /\ now - cache[j][1].ts > Ms(CacheTtlSec)


\* C24: set_cached(k, v) leaves k bound to v with the current time as its
\* timestamp and leaves every other key as it was; after a second
\* set_cached of k, a get_cached(k) that hits returns the second value, and
\* it hits while less than the TTL has passed since the second write and
\* misses once more than the TTL has passed since it.
C24_SetOverwrites ==
    [][\A k \in CacheKeys :
        /\ SetReturns(k) /\ cret'[LoopCaller].seq = cseq' =>
            /\ cache'[k] = Entry(cret'[LoopCaller].value, now)
            /\ \A j \in CacheKeys \ {k} : cache'[j] = cache[j]
        /\ GetReturns(k) /\ lastSet[k].seq > 0 =>
            /\ cret'[LoopCaller].kind = "hit" =>
                   cret'[LoopCaller].value = lastSet[k].value
            /\ now - lastSet[k].at < Ms(CacheTtlSec) => cret'[LoopCaller].kind = "hit"
            /\ now - lastSet[k].at > Ms(CacheTtlSec) => cret'[LoopCaller].kind = "miss"]_vars

\* Key k was written twice, the second time later than the first, and a
\* read made when the first write was TTL old returned the second value.
C24_Witness ==
    LET r == cret[LoopCaller] IN
    /\ r.op = "get_cached"
    /\ r.kind = "hit"
    /\ r.seq > lastSet[r.key].seq
    /\ r.value = lastSet[r.key].value
    /\ lastSet[r.key].prevAt >= 0
    /\ lastSet[r.key].at > lastSet[r.key].prevAt
    /\ r.at - lastSet[r.key].prevAt >= Ms(CacheTtlSec)


\* C25: a call of analyze_repository with force_refresh reads nothing from
\* the cache and returns nothing at its call, whatever entry exists; when
\* it completes it returns a new result and leaves that result under the
\* key with the current timestamp; a non-forced call made less than the
\* TTL after that, the entry not rewritten in between, returns that result.
C25_ForceRefresh ==
    [][/\ aCalls' = aCalls + 1 /\ aForce'[aCalls'] =>
            apc' = "fetching" /\ aRet' = aRet /\ cache' = cache
       /\ apc = "fetching" /\ aForce[aCalls] /\ apc' = "idle" /\ aRet'.kind # "raised" =>
            /\ aRet'.kind \in {"fetched", "partial"}
            /\ aRet'.value.n > gen
            /\ cache'[AnalysisKey] = Entry(aRet'.value, now)
       /\ (/\ aCalls' = aCalls + 1
           /\ aCalls > 0
           /\ aForce[aCalls]
           /\ ~aForce'[aCalls']
           /\ aRet.kind \in {"fetched", "partial"}
           /\ aRet.call = aCalls
           /\ lastSet[AnalysisKey].value = aRet.value
           /\ now - aRet.at < Ms(CacheTtlSec)) =>
            /\ apc' = "idle"
            /\ aRet' = [kind |-> "cached", value |-> aRet.value, at |-> now,
                        call |-> aCalls']]_vars

\* A forced call made over a fresh entry wrote a new result, and the
\* non-forced call after it, made later, returned that result.
C25_Witness ==
    /\ aForce = <<TRUE, FALSE>>
    /\ aRet.kind = "cached"
    /\ aRet.call = 2
    /\ aRet.value = lastSet[AnalysisKey].value
    /\ aRet.at > lastSet[AnalysisKey].at
    /\ lastSet[AnalysisKey].prevAt >= 0
    /\ lastSet[AnalysisKey].at - lastSet[AnalysisKey].prevAt < Ms(CacheTtlSec)


\* ------------------------------------------------------------------ backoff claims
\* initial_delay * 2^n
RawDelay(n) == Ms(InitialDelaySec) * Pow2(n)

\* The attempt number of the i-th call of get_delay.
AttemptOf(i) == bargs.attempt + i - 1

C27_NonDecreasingToCap ==
    Len(bdelays) = 2 /\ RawDelay(AttemptOf(1)) < Ms(MaxDelaySec)
        => bdelays[1] <= bdelays[2]

\* C27, amended: get_delay(n) <= get_delay(n + 1) for every pair of jitter
\* draws when initial_delay * 2^(n+1) is at most max_delay, and for the
\* un-jittered delays on the step onto the first capped attempt; once the
\* cap is reached the un-jittered delay is max_delay.
C27_NonDecreasingBelowCap ==
    /\ Len(bdelays) = 2 /\ RawDelay(AttemptOf(2)) <= Ms(MaxDelaySec)
        => bdelays[1] <= bdelays[2]
    /\ Len(bdelays) = 2 /\ ~bargs.jitter => bdelays[1] <= bdelays[2]
    /\ \A i \in 1..Len(bdelays) :
        ~bargs.jitter /\ RawDelay(AttemptOf(i)) >= Ms(MaxDelaySec)
            => bdelays[i] = Ms(MaxDelaySec)

\* The largest draw for attempt n and the smallest for attempt n + 1, both
\* below the cap.
C27_Witness ==
    /\ bargs.jitter
    /\ Len(bdelays) = 2
    /\ bargs.draws = <<JitterDen - 1, 0>>
    /\ RawDelay(AttemptOf(2)) <= Ms(MaxDelaySec)
    /\ bdelays[1] > RawDelay(AttemptOf(1))
    /\ bdelays[1] < bdelays[2]


\* ------------------------------------------------------------ C28 .. C30
RECURSIVE SumDur(_)
\* The time spent in the sleeps of a trace.
SumDur(tr) == IF tr = <<>> THEN 0 ELSE Head(tr).dur + SumDur(Tail(tr))

Quotas(tr) == SelectSeq(tr, LAMBDA e : e.ev = "quota")

\* C28 as stated: the time the operation in hand has spent suspended in
\* process_queue, quota sleeps and backoff sleeps together, is at most
\* max_retries * max_delay.
C28_TotalWaitBounded ==
    cur.id # 0 => SumDur(trace) <= cur.maxRetries * Ms(MaxDelaySec)

\* C28, amended: the operation in hand has had at most max_retries - 1
\* backoff sleeps, each of at most 1.2 * max_delay, so at most
\* (max_retries - 1) * 1.2 * max_delay of backoff sleep in all.
C28_BackoffWaitBounded ==
    cur.id # 0 =>
        /\ Len(Backoffs(trace)) <= Max(cur.maxRetries - 1, 0)
        /\ \A k \in 1..Len(trace) :
            trace[k].ev = "backoff" => 10 * trace[k].dur <= 12 * Ms(MaxDelaySec)
        /\ 10 * SumDur(Backoffs(trace))
               <= Max(cur.maxRetries - 1, 0) * 12 * Ms(MaxDelaySec)

\* An operation handled to the end with every backoff sleep it can have,
\* whose quota sleeps alone lasted longer than max_retries * max_delay.
C28_Witness ==
    /\ CurHandled
    /\ cur.maxRetries >= 2
    /\ Len(Backoffs(trace)) = cur.maxRetries - 1
    /\ SumDur(Backoffs(trace)) > 0
    /\ SumDur(Quotas(trace)) > cur.maxRetries * Ms(MaxDelaySec)


\* The resource class of a queued item.
ClassOf(item) == Pop(item.endpointArg, "core")

\* C29: while the consumer sleeps a quota wait or a backoff wait of an
\* operation of one resource class, no operation of another class that is
\* ready to run (its class has no quota wait) is kept waiting in the queue.
C29_ClassesIndependent ==
    pc \in {"quota_sleep", "backoff_sleep"} =>
        \A k \in 1..Len(queue) :
            ClassOf(queue[k]) # cur.endpoint
                => GetWaitTime(limits, ClassOf(queue[k]), now) > 0


\* One step of a retry loop (at p, then at q) obeys the quota rule: w is
\* get_wait_time for the operation's class before the step, a the attempt,
\* d the duration of the sleep in progress, d2 the duration after the step,
\* tr and tr2 the loop's trace before and after.
QuotaRule(p, q, w, a, d, d2, tr, tr2) ==
    /\ (q = "quota_sleep" /\ p # "quota_sleep") =>
            p = "loop" /\ w > 0 /\ d2 = w
    /\ (q = "call" /\ p # "call") =>
            \/ p = "loop" /\ w = 0 /\ tr2 = tr
            \/ /\ p = "quota_sleep"
               /\ now' = now + d
               /\ tr2 = Append(tr, Event("quota", a, d, "sleep"))
    /\ (tr2 # tr /\ tr2 # <<>> /\ tr2[Len(tr2)].ev = "exec") => p = "call"

\* In a trace every quota sleep has a positive duration and is followed
\* directly by the execution of its attempt, and no attempt executes twice.
OneQuotaSleepPerAttempt(tr) ==
    /\ \A k \in 1..Len(tr) :
        tr[k].ev = "quota" =>
            /\ tr[k].dur > 0
            /\ k < Len(tr) => tr[k + 1].ev = "exec" /\ tr[k + 1].at = tr[k].at
    /\ \A j, k \in 1..Len(tr) :
        (j < k /\ tr[j].ev = "exec" /\ tr[k].ev = "exec") => tr[j].at < tr[k].at

\* C30: on every attempt, the first and each retry, process_queue and the
\* wrapper go from the loop head to the call directly when get_wait_time of
\* the operation's class is 0, and otherwise through one sleep of exactly
\* that wait; the action is invoked only from there.
C30_QuotaSleepBeforeEveryCall ==
    /\ [][/\ QuotaRule(pc, pc', GetWaitTime(limits, cur.endpoint, now), attempt,
                       delay, delay', trace, trace')
          /\ QuotaRule(wpc, wpc', GetWaitTime(limits, wEndpoint, now), wAttempt,
                       wDelay, wDelay', wTrace, wTrace')]_vars
    /\ [](OneQuotaSleepPerAttempt(trace) /\ OneQuotaSleepPerAttempt(wTrace))

\* The queue executed a retry after its quota sleep, and the wrapper
\* executed a first attempt and a retry with no quota sleep.
C30_Witness ==
    /\ \E k \in 1..(Len(trace) - 1) :
        /\ trace[k].ev = "quota"
        /\ trace[k].at >= 1
        /\ trace[k].dur = GetWaitTime(limits, cur.endpoint, now)
        /\ trace[k + 1].ev = "exec"
    /\ Len(Execs(wTrace)) >= 2
    /\ Quotas(wTrace) = <<>>


\* ------------------------------------------------------------ C31 .. C40

\* C31: an execution of the operation in hand that returned successfully
\* is its last execution, whether its future is pending or cancelled.
C31_NoExecutionAfterSuccess ==
    \A j, k \in 1..Len(trace) :
        (j < k /\ trace[j].ev = "exec" /\ trace[k].ev = "exec")
            => trace[j].tag # "ok"


\* The operations process_queue has taken from the queue and not yet
\* finished with (task_done).
InHand ==
    {i \in 1..nextId : i \notin handled /\ \A k \in 1..Len(queue) : queue[k].id # i}

\* C32: at most one operation is between being dequeued and being finished
\* with, and it is the one the consumer waits, executes or backs off for.
C32_OneOperationInHand ==
    /\ Cardinality(InHand) <= 1
    /\ InHand \subseteq {cur.id}
    /\ pc \in {"loop", "quota_sleep", "call", "backoff_sleep", "after"}
           => InHand = {cur.id}

\* One operation is in its backoff sleep after another was finished, while
\* a third, submitted meanwhile, waits in the queue.
C32_Witness ==
    /\ pc = "backoff_sleep"
    /\ InHand = {cur.id}
    /\ handled # {}
    /\ queue # <<>>
    /\ nextId >= 3


\* The HTTP status an error reports, 0 when it reports none.
HttpStatus(tag) ==
    CASE tag = "E403" -> 403
      [] tag = "E429" -> 429
      [] tag = "E404" -> 404
      [] OTHER -> 0

\* An error reporting HTTP 403 or 429, or whose text matches 'rate limit'
\* or 'abuse'.
ReportsRateLimit(tag) ==
    \/ HttpStatus(tag) \in {403, 429}
    \/ Contains(Lower(ErrorText(tag)), <<"r", "a", "t", "e", " ", "l", "i", "m", "i", "t">>)
    \/ Contains(Lower(ErrorText(tag)), <<"a", "b", "u", "s", "e">>)

\* C33: in the decorator, an execution that fails with such an error while
\* attempts remain is never the end of the call with the error raised.
C33_RateLimitedRetried ==
    \A k \in 1..Len(wTrace) :
        ( /\ wTrace[k].ev = "exec"
          /\ wTrace[k].tag # "ok"
          /\ ReportsRateLimit(wTrace[k].tag)
          /\ AttemptsRemain(wTrace[k].at, wMax) )
        => ~(k = Len(wTrace) /\ wpc = "done" /\ wResult.kind = "raised")


\* C34: a get_cached(k) made when the last set_cached of k is at most the
\* TTL old, the instant of age = TTL included, returns the value written.
C34_HitUpToTtl ==
    LET r == cret[LoopCaller] IN
    ( /\ r.op = "get_cached"
      /\ lastSet[r.key].seq \in 1..(r.seq - 1)
      /\ r.at - lastSet[r.key].at <= Ms(CacheTtlSec) )
    => r.kind = "hit" /\ r.value = lastSet[r.key].value


\* C35: no analysis or file list that a failed GitHub call left incomplete
\* is in the cache or was returned.
C35_NoPartialResult ==
    /\ \A k \in CacheKeys : cache[k] # None => ~cache[k][1].value.partial
    /\ ~aRet.value.partial
    /\ ~lRet.value.partial


\* Key k holds an entry younger than the TTL.
Unexpired(k) == cache[k] # None /\ now - cache[k][1].ts < Ms(CacheTtlSec)

\* The step is a non-forced call of analyze_repository.
AnalyzeCalled == aCalls' = aCalls + 1 /\ ~aForce'[aCalls']

\* The step is a call of list_repo_files.
ListCalled == lCalls' = lCalls + 1

\* C36: a non-forced analyze_repository or a list_repo_files called while
\* its key holds an unexpired entry makes no GitHub request and leaves the
\* cache, value and timestamp, as it was.
C36_HitChangesNothing ==
    [][/\ (AnalyzeCalled /\ Unexpired(AnalysisKey))
            => fetches' = fetches /\ cache' = cache
       /\ (ListCalled /\ Unexpired(ListKey))
            => fetches' = fetches /\ cache' = cache]_vars

\* C37: a non-forced analyze_repository or a list_repo_files called while
\* its key holds an unexpired entry, an empty file list included, returns
\* the value of that entry from the cache.
C37_StoredValueServed ==
    [][/\ (AnalyzeCalled /\ Unexpired(AnalysisKey))
            => /\ apc' = "idle"
               /\ aRet' = [kind |-> "cached", value |-> cache[AnalysisKey][1].value,
                           at |-> now, call |-> aCalls']
       /\ (ListCalled /\ Unexpired(ListKey))
            => lRet' = [kind |-> "cached", value |-> cache[ListKey][1].value,
                        at |-> now, call |-> lCalls']]_vars


\* The call gives update_from_response a header value that is no integer,
\* or a class the tracker does not track.
BadUpdate(c) ==
    /\ c.op = "update_from_response"
    /\ \/ c.endpoint \notin {"core", "search", "graphql"}
       \/ BadText \in {c.headers.limit, c.headers.remaining, c.headers.reset}

\* C38: the body of an update_from_response given such a call returns
\* False in one step that leaves every record and the authenticated flag as
\* they were; the tracked classes are always core, search and graphql; and
\* get_status, get_wait_time and is_rate_limited answer for an untracked
\* class with the record of 'core' (the answer of get_status is looked at
\* as returned, before its caller changes the copy).
C38_FailedUpdateChangesNothing ==
    /\ [][\A t \in Threads :
            (tpc[t] = "locked" /\ tpc'[t] # "locked" /\ BadUpdate(call[t])) =>
                /\ tpc'[t] = "idle"
                /\ ret'[t].op = "update_from_response"
                /\ ~ret'[t].ok
                /\ limits' = limits
                /\ authenticated' = authenticated]_vars
    /\ [](/\ DOMAIN limits = {"core", "search", "graphql"}
          /\ GetWaitTime(limits, "other", now) = GetWaitTime(limits, "core", now)
          /\ IsRateLimited(limits, "other") = IsRateLimited(limits, "core")
          /\ \A t \in Threads :
                (/\ ret[t].op = "get_status"
                 /\ ret[t].endpoint = "other"
                 /\ ~ret[t].touched) =>
                    /\ DOMAIN ret[t].recs = {"core"}
                    /\ ret[t].recs["core"].endpoint = "core"
                    /\ ret[t].recs["core"] \in written)

\* An update for an untracked class has returned False and get_status has
\* then answered for the untracked class with the record of 'core', which
\* the caller has not changed since.
C38_Witness ==
    /\ ret["updater"].op = "update_from_response"
    /\ ret["updater"].endpoint = "other"
    /\ ~ret["updater"].ok
    /\ ret["reader"].op = "get_status"
    /\ ret["reader"].endpoint = "other"
    /\ ~ret["reader"].touched
    /\ ret["reader"].seq > ret["updater"].seq
    /\ ret["reader"].recs["core"] = limits["core"]



\* Thread t's update_from_response stores the record it has parsed.
StoresRecord(t) == tpc[t] = "locked" /\ tpc'[t] = "stored"

\* C39: an update_from_response that stores a record leaves limit, and
\* remaining, at its previous value when that header is missing, and sets
\* reset to 0 when the reset header is missing; with that record and
\* remaining <= 0, get_wait_time is 3600 seconds, whatever reset had been
\* recorded before, as a caller of get_wait_time that reads such a record is
\* told.
C39_PartialHeaders ==
    /\ [][\A t \in Threads : StoresRecord(t) =>
            LET h == call[t].headers
                e == call[t].endpoint
            IN  /\ h.limit = None => limits'[e].limit = limits[e].limit
                /\ h.remaining = None =>
                      limits'[e].remaining = limits[e].remaining
                /\ h.reset = None => limits'[e].reset = Some(0)
                /\ (h.reset = None /\ limits'[e].remaining <= 0) =>
                      GetWaitTime(limits', e, now') = Ms(FallbackWaitSec)]_vars
    /\ [](\A t \in Threads : \A e \in Endpoints :
            (/\ ret[t].op = "get_wait_time"
             /\ e \in DOMAIN ret[t].seen
             /\ ret[t].seen[e].reset = Some(0)
             /\ ret[t].seen[e].remaining <= 0) =>
                ret[t].num = Ms(FallbackWaitSec))

\* A reset instant ahead was recorded for 'core'; a later response with a
\* remaining header only has left the limit, set reset to 0 and made the
\* wait time 3600 seconds.
C39_Witness ==
    /\ ret["updater"].op = "update_from_response"
    /\ ret["updater"].ok
    /\ ret["updater"].seq = stamp["core"].seq
    /\ limits["core"] = [limit |-> 60, remaining |-> -1, reset |-> Some(0),
                         endpoint |-> "core"]
    /\ \E r \in written :
          r.endpoint = "core" /\ r.remaining = 0 /\ Truthy(r.reset)
                              /\ Ms(r.reset[1]) > now
    /\ GetWaitTime(limits, "core", now) = Ms(FallbackWaitSec)



\* No response has been recorded for class e.
Unrecorded(e) == stamp[e].seq = 0

\* C40: as long as no response has been recorded for it, 'core' is at
\* 60/60 and 'search' at 10/10, neither is rate-limited and both have wait
\* time 0, while 'graphql' is at 0/0 with no reset, is rate-limited and has
\* wait time 3600 seconds; and as long as none has been recorded for
\* 'graphql', process_queue reaches the call of a 'graphql' operation only
\* out of a quota sleep of 3600 seconds, so that every execution in the
\* operation's trace follows a 3600-second quota sleep of the same attempt.
C40_InitialTrackerState ==
    /\ [](/\ Unrecorded("core") =>
                /\ limits["core"].limit = 60 /\ limits["core"].remaining = 60
                /\ ~IsRateLimited(limits, "core")
                /\ GetWaitTime(limits, "core", now) = 0
          /\ Unrecorded("search") =>
                /\ limits["search"].limit = 10 /\ limits["search"].remaining = 10
                /\ ~IsRateLimited(limits, "search")
                /\ GetWaitTime(limits, "search", now) = 0
          /\ Unrecorded("graphql") =>
                /\ limits["graphql"].limit = 0 /\ limits["graphql"].remaining = 0
                /\ limits["graphql"].reset = None
                /\ IsRateLimited(limits, "graphql")
                /\ GetWaitTime(limits, "graphql", now) = Ms(3600)
          /\ (Unrecorded("graphql") /\ cur.id # 0 /\ cur.endpoint = "graphql") =>
                \A k \in 1..Len(trace) :
                    trace[k].ev = "exec" =>
                        /\ k > 1
                        /\ trace[k - 1] = Event("quota", trace[k].at, Ms(3600), "sleep"))
    /\ [][(/\ Unrecorded("graphql")
           /\ cur.endpoint = "graphql"
           /\ pc # "call" /\ pc' = "call") =>
                /\ pc = "quota_sleep"
                /\ delay = Ms(3600)
                /\ now' = now + Ms(3600)]_vars

\* With a response recorded for 'core' and none for 'graphql', a 'graphql'
\* operation has been executed on its first attempt and on a retry, each
\* after a quota sleep of 3600 seconds.
C40_Witness ==
    /\ Unrecorded("graphql")
    /\ ~Unrecorded("core")
    /\ cur.id # 0
    /\ cur.endpoint = "graphql"
    /\ Len(Execs(trace)) >= 2
    /\ Len(Quotas(trace)) >= 2
    /\ SumDur(Quotas(trace)) = Len(Quotas(trace)) * Ms(3600)

====
